---------------------------- MODULE Spec2Model ----------------------------
(***************************************************************************)
(* Verification model of the checkers online-learning backend             *)
(* (joviva/viloria-checkers-ai, docs/).                                    *)
(*                                                                         *)
(* The specifications of the module:                                       *)
(*   CodecSpec  - model/encoder.py: encode_move / decode_move              *)
(*   StoreSpec  - model/replay_buffer.py with its writers                  *)
(*                (api/ai.py record_game, learning/selfplay.py)            *)
(*   EvictionSpec - the same store filled past max_games                   *)
(*   Spec       - learning/worker.py A2CLearner and train_loop, and the    *)
(*                request-serving process of api/ai.py                     *)
(*   LoopSpec   - the training process of Spec on its own                  *)
(*   CurriculumSpec, ExplorationSpec - learning/curriculum.py              *)
(*   SamplerSpec - the samplers of model/replay_buffer.py                  *)
(*   RewardSpec, MoveSpec, RecordSpec - api/ai.py calculate_reward,        *)
(*                infer_move and record_game called on their own           *)
(*   ConstructSpec - learning/worker.py A2CLearner.__init__                *)
(***************************************************************************)
EXTENDS Integers, Sequences, FiniteSets, TLC

VARIABLES
    \* ---- move codec (model/encoder.py) ----
    cPc,        \* "idle" | "encoded" | "decoded"
    cArgs,      \* <<from_row, from_col, to_row, to_col>> of the last encode_move call
    cIdx,       \* value returned by the last encode_move call
    cDec,       \* value returned by decode_move(cIdx); tag "unset" before the call
    \* ---- experience store (model/replay_buffer.py) and its writers ----
    games,          \* rows of table games
    trajectories,   \* rows of table trajectories, each with its number of copies
    clock,          \* datetime.now(), in ticks
    lock,           \* ReplayBuffer.lock of each ReplayBuffer instance
    writer,         \* each recorder's position in record_game / _play_single_game
    adds,           \* number of add_game calls made so far
    \* ---- training process (learning/worker.py) ----
    wPc,                \* position of the training process in train_loop
    model_training,     \* A2CLearner.model_training: parameter -> weights
    model_live,         \* A2CLearner.model_live: parameter -> weights
    training_steps,     \* A2CLearner.training_steps
    learning_paused,    \* A2CLearner.learning_paused
    avg_loss_window,    \* A2CLearner.avg_loss_window: the trailing total losses
    consecutive_errors, \* train_loop local
    iteration,          \* train_loop local
    copied,             \* parameters load_state_dict has copied in the running sync
    syncs,              \* copies into model_live completed since the process started
    sync_health,        \* result of the health check of the last sync_models call
    sync_result,        \* value returned by the last sync_models call
    live_before,        \* model_live when the last sync_models call was entered
    checkpoint,         \* checkpoints/model.pth
    \* ---- request-serving process (api/ai.py, api/main.py) ----
    apiUp,              \* the serving process is running
    model,              \* api/ai.py module global: the fallback model
    MODEL_VERSION,      \* api/ai.py module global
    learner,            \* api/ai.py module global, one binding per process
    infer,              \* the move request being answered by infer_move
    \* ---- history ----
    trained,            \* optimizer steps taken so far, over all runs
    boots,              \* starts of the training process so far
    validated,          \* weights that passed the health check of a sync
    published,          \* model_training as copied by the last successful sync
    \* ---- what train_loop sees of the store, and its course ----
    fetched,            \* what the current iteration found in the store:
                        \* total_trajectories and the rows of player "black"
    iters,              \* iterations of this run that raised, in a row up
                        \* to now (0 after one that ended without raising)
    clean_iters,        \* some iteration of this run ended without raising
    exit_save,          \* outcome of save_model on the too-many-errors exit
    signalled,          \* SIGINT or SIGTERM has reached this run of train_loop
    iter_saved,         \* the periodic save_model ran in the current iteration
    \* ---- curriculum manager (learning/curriculum.py) and its game count ----
    games_count,        \* SELECT COUNT(*) FROM games
    games_completed,    \* CurriculumManager.games_completed
    current_stage,      \* CurriculumManager.current_stage
    highest_reported,   \* rank of the latest stage reported so far
    \* ---- a library function called on its own: the samplers of the store
    \* (model/replay_buffer.py), the reward engine (api/ai.py), the exploration
    \* schedule (learning/curriculum.py), the move selection (api/ai.py) ----
    sPc,                \* "idle" | "mixed" | "prioritized" | "reward" | "epsilon"
                        \* | "infer_move" | "construct" | "record_game"
    sArgs,              \* arguments of the call
    sOut                \* what the call asked for or returned

codecVars == <<cPc, cArgs, cIdx, cDec>>

storeVars == <<games, trajectories, clock, lock, writer, adds>>

workerVars == <<wPc, model_training, model_live, training_steps,
                learning_paused, avg_loss_window, consecutive_errors,
                iteration, copied, syncs,
                sync_health, sync_result, live_before>>

apiVars == <<apiUp, model, MODEL_VERSION, infer>>

historyVars == <<trained, boots, validated, published>>

loopVars == <<fetched, iters, clean_iters, exit_save, signalled,
              iter_saved>>

coordVars == <<workerVars, checkpoint, apiVars, learner, historyVars,
               loopVars>>

curriculumVars == <<games_count, games_completed, current_stage,
                    highest_reported>>

samplerVars == <<sPc, sArgs, sOut>>

libraryVars == <<curriculumVars, samplerVars>>

vars == <<codecVars, storeVars, coordVars, libraryVars>>

(***************************************************************************)
(* Generic helpers                                                         *)
(***************************************************************************)

\* Python list.index: zero-based position of the first occurrence; ValueError
\* (x is not an element) is represented by NotFound.
NotFound == -1

ListIndex(seq, x) ==
    IF \E i \in 1..Len(seq) : seq[i] = x
    THEN (CHOOSE i \in 1..Len(seq) :
             /\ seq[i] = x
             /\ \A j \in 1..(i - 1) : seq[j] # x) - 1
    ELSE NotFound

Abs(n) == IF n < 0 THEN -n ELSE n

(***************************************************************************)
(* Move codec: model/encoder.py                                            *)
(***************************************************************************)

board_size == 10

\* Rows and columns offered to the codec lie this far outside the board too.
CoordMargin == 1

Coords == (0 - CoordMargin)..(board_size - 1 + CoordMargin)

\* All squares of the board in row-major order, as the two nested loops of
\* encode_move / decode_move visit them.
AllSquares ==
    [i \in 1..(board_size * board_size) |->
        <<(i - 1) \div board_size, (i - 1) % board_size>>]

IsDark(sq) == (sq[1] + sq[2]) % 2 = 1

playable_squares == SelectSeq(AllSquares, IsDark)

directions ==
    << <<-1, -1>>, <<-1, 1>>, <<1, -1>>, <<1, 1>>,
       <<-2, -2>>, <<-2, 2>>, <<2, -2>>, <<2, 2>> >>

\* dr // abs(dr) if dr != 0 else 0   (Python floor division)
NormalizeStep(d) == IF d # 0 THEN d \div Abs(d) ELSE 0

direction_index(dr, dc) ==
    IF ListIndex(directions, <<dr, dc>>) # NotFound
    THEN ListIndex(directions, <<dr, dc>>)
    ELSE ListIndex(directions, <<NormalizeStep(dr), NormalizeStep(dc)>>)

encode_move(from_row, from_col, to_row, to_col) ==
    LET from_square_idx == ListIndex(playable_squares, <<from_row, from_col>>)
        direction_idx   == direction_index(to_row - from_row, to_col - from_col)
    IN  IF from_square_idx = NotFound THEN -1
        ELSE IF direction_idx = NotFound THEN -1
        ELSE from_square_idx * 8 + direction_idx

\* decode_move returns None, a {'from': .., 'to': ..} record, or raises
\* IndexError (a from_square_idx below -len(playable_squares); a negative
\* index down to -len counts from the end of the list, as Python lists do).
decode_move(move_index) ==
    LET from_square_idx == move_index \div 8
        direction_idx   == move_index % 8
        n               == Len(playable_squares)
    IN  IF from_square_idx >= n THEN [tag |-> "None"]
        ELSE IF from_square_idx < 0 - n THEN [tag |-> "IndexError"]
        ELSE
          LET from_sq == IF from_square_idx >= 0
                         THEN playable_squares[from_square_idx + 1]
                         ELSE playable_squares[n + from_square_idx + 1]
              d       == directions[direction_idx + 1]
              to_row  == from_sq[1] + d[1]
              to_col  == from_sq[2] + d[2]
          IN  IF /\ 0 <= to_row /\ to_row < board_size
                 /\ 0 <= to_col /\ to_col < board_size
              THEN [tag |-> "move", from |-> from_sq, to |-> <<to_row, to_col>>]
              ELSE [tag |-> "None"]

(***************************************************************************)
(* Exact arithmetic for rewards                                            *)
(*                                                                         *)
(* The reward engine mixes decimal weights with ratios of piece counts.    *)
(* Rewards are kept as fractions <<numerator, denominator>> in lowest      *)
(* terms with a positive denominator, so equal rewards are equal values.   *)
(***************************************************************************)

RECURSIVE Gcd(_, _)
Gcd(a, b) == IF b = 0 THEN a ELSE Gcd(b, a % b)

Frac(n, d) ==
    LET g == Gcd(Abs(n), d)
    IN  IF n = 0 THEN <<0, 1>> ELSE <<n \div g, d \div g>>

FracInt(n) == <<n, 1>>
\* n hundredths: 0.08 is Cents(8)
Cents(n) == Frac(n, 100)
FracAdd(a, b) == Frac(a[1] * b[2] + b[1] * a[2], a[2] * b[2])
FracSub(a, b) == Frac(a[1] * b[2] - b[1] * a[2], a[2] * b[2])
FracMul(a, b) == Frac(a[1] * b[1], a[2] * b[2])
FracLe(a, b) == a[1] * b[2] <= b[1] * a[2]
FracLt(a, b) == a[1] * b[2] < b[1] * a[2]

\* np.clip(x, lo, hi)
np_clip_off(x, lo, hi) == x
np_clip(x, lo, hi) == IF FracLt(x, lo) THEN lo ELSE IF FracLt(hi, x) THEN hi ELSE x

Max(a, b) == IF a >= b THEN a ELSE b

(***************************************************************************)
(* Reward engine: api/ai.py calculate_reward and its helpers               *)
(*                                                                         *)
(* The frontend sends a board as a list of rows, a row as a list of cells, *)
(* a cell as None or a piece record {"color": .., "king": ..}.  The        *)
(* trajectory schema admits rows of different lengths, and calculate_reward*)
(* itself prepares for a string, for a row that is not a list and for a    *)
(* cell that is neither None nor a dict.  Rows and columns are numbered    *)
(* from 0 as in the source.                                                *)
(***************************************************************************)

NoneCell == [t |-> "none"]
Piece(color, king) == [t |-> "piece", color |-> color, king |-> king]
\* a cell that is neither None nor a dict: a number, a non-empty string
OddCell == [t |-> "odd"]

\* a row that is a list of cells
ListRow(cells) == [list |-> TRUE, cells |-> cells]
\* a row sent as null: not a list, without a length, not subscriptable
NoneRow == [list |-> FALSE, cells |-> <<>>]

\* the board argument as it arrives: a list of rows, or a string whose text
\* is the JSON of a list of rows or is not JSON at all
ListBoard(rows) == [t |-> "list", rows |-> rows]
NotJson == [t |-> "notjson"]
StrBoard(text) == [t |-> "str", text |-> text]

\* _normalize_board: json.loads of a string, the string itself when that fails
_normalize_board(board) ==
    IF board.t = "str" /\ board.text.t # "notjson" THEN board.text ELSE board

\* The rows the helpers walk: each helper returns its zero for a board that
\* is not a list, exactly as it does for the empty list.
RowsOf(board) == IF board.t = "list" THEN board.rows ELSE <<>>

Rows(board) == Len(board)
\* isinstance(board[row], list)
IsList(board, row) == board[row + 1].list
\* len(board[0])
Cols(board) == IF Rows(board) = 0 THEN 0 ELSE Len(board[1].cells)
At(board, row, col) == board[row + 1].cells[col + 1]
\* the bounds tests on a neighbour, with isinstance(board[nr], list)
InBoard(board, row, col) ==
    /\ 0 <= row /\ row < Rows(board)
    /\ 0 <= col /\ col < Cols(board)
    /\ IsList(board, row)
\* for row in range(len(board)): for col in range(len(board[0])), a row
\* that is not a list skipped
Squares(board) ==
    {sq \in (0..(Rows(board) - 1)) \X (0..(Cols(board) - 1)) :
        IsList(board, sq[1])}
\* for row in board: for cell in row, a row that is not a list skipped
AllCells(board) ==
    UNION {{<<row, col>> : col \in 0..(Len(board[row + 1].cells) - 1)} :
              row \in {r \in 0..(Rows(board) - 1) : IsList(board, r)}}

\* len(board[0]) when the first row has no length: TypeError
len_raises(board) == Rows(board) > 0 /\ ~IsList(board, 0)

\* board[row][col] for col < len(board[0]) in a shorter row: IndexError
index_raises(board) ==
    \E row \in 0..(Rows(board) - 1) :
        IsList(board, row) /\ Len(board[row + 1].cells) < Cols(board)

\* count_gaps reads board[row + 1][col +- 1] under a piece of `color`
\* without looking at the type of that row: TypeError on a null row
gap_read_raises(board, color) ==
    \E row \in 0..(Rows(board) - 2), col \in 0..(Cols(board) - 1) :
        /\ IsList(board, row)
        /\ At(board, row, col).t = "piece"
        /\ At(board, row, col).color = color
        /\ col + 1 < Cols(board) \/ col - 1 >= 0
        /\ ~IsList(board, row + 1)

\* some helper of calculate_reward raises on this board
helpers_raise(board) ==
    \/ len_raises(board)
    \/ ~len_raises(board) /\ index_raises(board)
    \/ ~len_raises(board) /\ ~index_raises(board) /\ gap_read_raises(board, "black")

\* board[r][c] and isinstance(board[r][c], dict) and board[r][c].get("color") == color
IsColor(board, row, col, color) ==
    /\ At(board, row, col).t = "piece"
    /\ At(board, row, col).color = color

IsKingOf(board, row, col, color) ==
    /\ IsColor(board, row, col, color)
    /\ At(board, row, col).king

Diagonals == {<<-1, -1>>, <<-1, 1>>, <<1, -1>>, <<1, 1>>}

\* has_neighbor: some diagonal neighbour on the board holds a piece of `color`
HasNeighbor(board, row, col, color) ==
    \E d \in Diagonals :
        /\ InBoard(board, row + d[1], col + d[2])
        /\ IsColor(board, row + d[1], col + d[2], color)

\* _count_pieces: the six counters
_count_pieces(board) ==
    LET pieces(P(_)) ==
            Cardinality({sq \in AllCells(board) :
                            /\ At(board, sq[1], sq[2]).t = "piece"
                            /\ P(At(board, sq[1], sq[2]))})
    IN  [ total       |-> Cardinality({sq \in AllCells(board) :
                                          At(board, sq[1], sq[2]) # NoneCell}),
          kings_total |-> pieces(LAMBDA c : c.king),
          red_total   |-> pieces(LAMBDA c : c.color = "red"),
          red_kings   |-> pieces(LAMBDA c : c.color = "red" /\ c.king),
          black_total |-> pieces(LAMBDA c : c.color = "black"),
          black_kings |-> pieces(LAMBDA c : c.color = "black" /\ c.king) ]

\* _evaluate_gap_closure.count_gaps: for every piece of `color` not on the
\* last row, one gap per empty forward-diagonal square
count_gaps(board, color) ==
    Cardinality({g \in Squares(board) \X {-1, 1} :
        LET row == g[1][1]
            col == g[1][2]
            dc  == g[2]
        IN  /\ row < Rows(board) - 1
            /\ IsColor(board, row, col, color)
            /\ InBoard(board, row + 1, col + dc)
            /\ At(board, row + 1, col + dc) = NoneCell})

_evaluate_gap_closure(board_before, board_after, color) ==
    count_gaps(board_before, color) - count_gaps(board_after, color)

ColorSquares(board, color) ==
    {sq \in Squares(board) : IsColor(board, sq[1], sq[2], color)}

\* _count_supported_pieces
_count_supported_pieces(board, color) ==
    Cardinality({sq \in ColorSquares(board, color) :
                    HasNeighbor(board, sq[1], sq[2], color)})

\* _evaluate_cohesion: connected_count / max(total_pieces, 1)
_evaluate_cohesion(board, color) ==
    Frac(_count_supported_pieces(board, color),
         Max(Cardinality(ColorSquares(board, color)), 1))

\* _count_threatened_kings: kings of `color` with an opponent piece on one
\* diagonal neighbour and an empty square directly behind the king
_count_threatened_kings(board, color) ==
    LET opponent_color == IF color = "black" THEN "red" ELSE "black"
    IN  Cardinality({sq \in Squares(board) :
            /\ IsKingOf(board, sq[1], sq[2], color)
            /\ \E d \in Diagonals :
                  /\ InBoard(board, sq[1] - d[1], sq[2] - d[2])
                  /\ InBoard(board, sq[1] + d[1], sq[2] + d[2])
                  /\ IsColor(board, sq[1] - d[1], sq[2] - d[2], opponent_color)
                  /\ At(board, sq[1] + d[1], sq[2] + d[2]) = NoneCell})

\* _count_isolated_pieces
_count_isolated_pieces(board, color) ==
    Cardinality({sq \in ColorSquares(board, color) :
                    ~HasNeighbor(board, sq[1], sq[2], color)})

back_rank(board, color) == IF color = "black" THEN 0 ELSE Rows(board) - 1

\* _count_back_rank_pieces
_count_back_rank_pieces(board, color) ==
    IF Rows(board) = 0 \/ ~IsList(board, back_rank(board, color)) THEN 0
    ELSE Cardinality({col \in 0..(Len(board[back_rank(board, color) + 1].cells) - 1) :
                         IsColor(board, back_rank(board, color), col, color)})

\* _violated_back_rank: fewer than 3 pieces of `color` on its back rank
_violated_back_rank(board, color) ==
    IF Rows(board) = 0 \/ ~IsList(board, back_rank(board, color)) THEN FALSE
    ELSE _count_back_rank_pieces(board, color) < 3

\* _estimate_mobility: empty squares one diagonal step ahead of each piece
\* (all four diagonals for a king)
_estimate_mobility(board, color) ==
    LET dirs(row, col) ==
            IF At(board, row, col).king THEN Diagonals
            ELSE IF color = "black" THEN {<<-1, -1>>, <<-1, 1>>}
            ELSE {<<1, -1>>, <<1, 1>>}
    IN  Cardinality({m \in Squares(board) \X Diagonals :
            /\ IsColor(board, m[1][1], m[1][2], color)
            /\ m[2] \in dirs(m[1][1], m[1][2])
            /\ InBoard(board, m[1][1] + m[2][1], m[1][2] + m[2][2])
            /\ At(board, m[1][1] + m[2][1], m[1][2] + m[2][2]) = NoneCell})

_determine_phase(total_pieces) ==
    IF total_pieces >= 15 THEN "opening"
    ELSE IF total_pieces >= 8 THEN "midgame"
    ELSE "endgame"

\* _count_active_kings: kings off the two outer rings of the board
_count_active_kings(board, color) ==
    Cardinality({sq \in Squares(board) :
        /\ IsKingOf(board, sq[1], sq[2], color)
        /\ 1 < sq[1] /\ sq[1] < Rows(board) - 2
        /\ 1 < sq[2] /\ sq[2] < Cols(board) - 2})

\* Tier 1: the material term for a capture count
material_reward_flat(captured) ==
    IF captured >= 1 THEN Cents(8) ELSE FracInt(0)
material_reward(captured) ==
    IF captured > 1
    THEN FracAdd(Cents(20 * captured),
                 Cents(5 * (captured - 1) * (captured - 1)))
    ELSE IF captured = 1 THEN Cents(8)
    ELSE FracInt(0)

\* The shaped (non-terminal) reward before clipping, tier by tier.
shaped_reward(board_before, board_after) ==
    LET before_counts == _count_pieces(board_before)
        after_counts  == _count_pieces(board_after)
        tier1 == material_reward(before_counts.total - after_counts.total)
        tier2 ==
            FracAdd(Cents(3 * _evaluate_gap_closure(board_before, board_after, "black")),
            FracAdd(FracMul(Cents(4),
                            FracSub(_evaluate_cohesion(board_after, "black"),
                                    _evaluate_cohesion(board_before, "black"))),
                    Cents(2 * (_count_supported_pieces(board_after, "black")
                               - _count_supported_pieces(board_before, "black")))))
        promotion ==
            IF after_counts.black_kings > before_counts.black_kings
            THEN FracMul(Cents(12),
                         FracAdd(FracInt(1), Frac(1, Max(after_counts.total, 5))))
            ELSE FracInt(0)
        king_risk ==
            Cents(15 * (_count_threatened_kings(board_after, "black")
                        - _count_threatened_kings(board_before, "black")))
        king_loss ==
            IF after_counts.black_kings < before_counts.black_kings
            THEN Cents(25 * (before_counts.black_kings - after_counts.black_kings))
            ELSE FracInt(0)
        tier3 == FracSub(FracSub(promotion, king_risk), king_loss)
        isolation ==
            Cents(5 * (_count_isolated_pieces(board_after, "black")
                       - _count_isolated_pieces(board_before, "black")))
        back_rank_penalty ==
            IF _violated_back_rank(board_after, "black")
               /\ ~_violated_back_rank(board_before, "black")
            THEN Cents(20) ELSE FracInt(0)
        tier4 == FracSub(FracSub(FracInt(0), isolation), back_rank_penalty)
        tier5 == Cents(_estimate_mobility(board_before, "red")
                       - _estimate_mobility(board_after, "red"))
        game_phase == _determine_phase(after_counts.total)
        tier6 ==
            IF game_phase = "opening"
            THEN Cents(2 * _count_back_rank_pieces(board_after, "black"))
            ELSE IF game_phase = "endgame"
            THEN Cents(3 * _count_active_kings(board_after, "black"))
            ELSE FracInt(0)
    IN  FracAdd(tier1, FracAdd(tier2, FracAdd(tier3,
            FracAdd(tier4, FracAdd(tier5, tier6)))))

\* the terminal branch: anything but "ai" and "human" counts as a draw
terminal_reward_draw(winner) == FracInt(0)
terminal_reward(winner) ==
    IF winner = "ai" THEN FracInt(1)
    ELSE IF winner = "human" THEN FracInt(-1)
    ELSE FracInt(0)

\* before_counts["total"] - after_counts["total"]
pieces_captured(board_before, board_after) ==
    _count_pieces(RowsOf(_normalize_board(board_before))).total
        - _count_pieces(RowsOf(_normalize_board(board_after))).total

\* calculate_reward(board_before, board_after, action, is_terminal, winner)
\* leaves by an exception: nothing in it catches what a helper raises.
calculate_reward_raises(board_before, board_after, is_terminal) ==
    /\ ~is_terminal
    /\ \/ helpers_raise(RowsOf(_normalize_board(board_before)))
       \/ helpers_raise(RowsOf(_normalize_board(board_after)))

\* calculate_reward(board_before, board_after, action, is_terminal, winner),
\* the value it returns when it returns; the action argument is not read
\* by the source.
calculate_reward(board_before, board_after, is_terminal, winner) ==
    IF is_terminal
    THEN terminal_reward(winner)
    ELSE np_clip(shaped_reward(RowsOf(_normalize_board(board_before)),
                               RowsOf(_normalize_board(board_after))),
                 FracInt(-1), FracInt(1))


(***************************************************************************)
(* Sample positions                                                        *)
(*                                                                         *)
(* Trajectory steps submitted to record_game, and played by the self-play  *)
(* generator, are drawn from these (board-before, board-after) pairs on    *)
(* the 10x10 board.                                                        *)
(***************************************************************************)

\* A 10x10 board holding the given pieces, every other square None.
MkBoard(placed) ==
    ListBoard(
        [r \in 1..board_size |->
            ListRow([c \in 1..board_size |->
                IF \E p \in placed : p.at = <<r - 1, c - 1>>
                THEN LET p == CHOOSE q \in placed : q.at = <<r - 1, c - 1>>
                     IN  Piece(p.color, p.king)
                ELSE NoneCell])])

Man(row, col, color)  == [at |-> <<row, col>>, color |-> color, king |-> FALSE]
King(row, col, color) == [at |-> <<row, col>>, color |-> color, king |-> TRUE]

\* black steps 6,5 -> 5,4 next to its own piece; nothing is captured
QuietStep ==
    [ before |-> MkBoard({Man(6, 5, "black"), Man(4, 5, "black"), Man(1, 2, "red")}),
      after  |-> MkBoard({Man(5, 4, "black"), Man(4, 5, "black"), Man(1, 2, "red")}) ]

\* black jumps 5,4 -> 3,2 over the red piece on 4,3
CaptureStep ==
    [ before |-> MkBoard({Man(5, 4, "black"), Man(4, 3, "red"), Man(1, 2, "red")}),
      after  |-> MkBoard({Man(3, 2, "black"), Man(1, 2, "red")}) ]

\* black jumps 6,5 -> 4,3 -> 2,1 over the red pieces on 5,4 and 3,2
DoubleCaptureStep ==
    [ before |-> MkBoard({Man(6, 5, "black"), Man(5, 4, "red"), Man(3, 2, "red"),
                          Man(0, 9, "red")}),
      after  |-> MkBoard({Man(2, 1, "black"), Man(0, 9, "red")}) ]

\* black jumps 5,4 -> 3,2 over the last red piece: the move that wins
WinningStep ==
    [ before |-> MkBoard({Man(5, 4, "black"), Man(4, 3, "red")}),
      after  |-> MkBoard({Man(3, 2, "black")}) ]

StepKinds == <<QuietStep, CaptureStep, DoubleCaptureStep, WinningStep>>

BlackMan  == Piece("black", FALSE)
BlackKing == Piece("black", TRUE)
RedMan    == Piece("red", FALSE)

\* a well-formed 2x2 corner: [[black, None], [None, red]]
CornerBoard ==
    ListBoard(<<ListRow(<<BlackMan, NoneCell>>), ListRow(<<NoneCell, RedMan>>)>>)

\* Board encodings calculate_reward is called with, beside the 10x10 sample
\* positions: well-formed, partial and malformed ones.
BoardEncodings ==
    { \* []
      ListBoard(<<>>),
      \* "garbage": a string that is not JSON
      StrBoard(NotJson),
      \* the JSON text of the corner board, and the corner board itself
      StrBoard(CornerBoard),
      CornerBoard,
      \* [[1, 1], [1, 1]]: four cells that are neither None nor a dict
      ListBoard(<<ListRow(<<OddCell, OddCell>>), ListRow(<<OddCell, OddCell>>)>>),
      \* [[None, 1], [blackKing, None]]
      ListBoard(<<ListRow(<<NoneCell, OddCell>>), ListRow(<<BlackKing, NoneCell>>)>>),
      \* [[None, None], [None]]: a second row shorter than the first
      ListBoard(<<ListRow(<<NoneCell, NoneCell>>), ListRow(<<NoneCell>>)>>),
      \* [[None], [red, blackKing]]: a second row longer than the first
      ListBoard(<<ListRow(<<NoneCell>>), ListRow(<<RedMan, BlackKing>>)>>),
      \* [None, [None, None]]: the first row is not a list
      ListBoard(<<NoneRow, ListRow(<<NoneCell, NoneCell>>)>>),
      \* [[red, None], None]: a later row is not a list, under a red piece
      ListBoard(<<ListRow(<<RedMan, NoneCell>>), NoneRow>>),
      \* [[black, None], None]: a later row is not a list, under a black piece
      ListBoard(<<ListRow(<<BlackMan, NoneCell>>), NoneRow>>),
      \* [[black, black, black], [None, black, None], [red, None, red]]
      ListBoard(<<ListRow(<<BlackMan, BlackMan, BlackMan>>),
                  ListRow(<<NoneCell, BlackMan, NoneCell>>),
                  ListRow(<<RedMan, NoneCell, RedMan>>)>>) }
        \cup {StepKinds[k].before : k \in 1..Len(StepKinds)}
        \cup {StepKinds[k].after : k \in 1..Len(StepKinds)}

\* winner as record_game passes it on
RewardWinners == {"ai", "human", "draw"}


(***************************************************************************)
(* Experience store: model/replay_buffer.py, written by api/ai.py          *)
(* record_game (request threads of the serving process, which share the    *)
(* module-level ReplayBuffer) and by learning/selfplay.py (which is handed *)
(* a ReplayBuffer instance of its own, see test_selfplay.py).              *)
(***************************************************************************)

\* ReplayBuffer(max_games=...): the cap on stored games (10000 by default)
max_games == 1
\* game identifiers a client may send: as many as the store holds, so that
\* with the self-play games the cap is exceeded
MaxGameId == max_games
\* longest trajectory of a request
MaxTrajLen == 1
\* add_game calls in one run
MaxAdds == 2
\* add_game calls in one run of the eviction-order specification
MaxEvictionAdds == 3

ApiThreads == {"t1", "t2"}
Writers == ApiThreads \cup {"sp"}
\* the ReplayBuffer instance, hence the threading.Lock, a writer goes through
InstanceOf(w) == IF w \in ApiThreads THEN "api" ELSE "selfplay"

ClientGameIds == 1..MaxGameId
\* f"selfplay_{uuid}": identifiers no client game has
SelfPlayGameId(n) == 100 + n

\* step kinds a trajectory is made of (indices into StepKinds): captures
TrajectoryKinds == {2}
Trajectories ==
    UNION {[1..n -> TrajectoryKinds] : n \in 0..MaxTrajLen}

RequestWinners == {"ai", "human", "bogus"}

\* record_game: an invalid winner is recorded as a draw
valid_winner(winner) ==
    IF winner \in {"ai", "human", "draw"} THEN winner ELSE "draw"

IdleWriter == [pc |-> "idle"]

GameIdsOf(gs) == {g.game_id : g \in gs}

\* INSERT OR REPLACE INTO games: the row with this primary key is replaced
insert_or_replace(gs, row) ==
    {g \in gs : g.game_id # row.game_id} \cup {row}

\* INSERT INTO trajectories: one more row (rows differ only in the
\* autoincrement id, so a row is kept with its number of copies)
insert_row(ts, row) ==
    IF row \in DOMAIN ts
    THEN [ts EXCEPT ![row] = @ + 1]
    ELSE [r \in DOMAIN ts \cup {row} |-> IF r = row THEN 1 ELSE ts[r]]

\* DELETE FROM trajectories WHERE game_id = ?   for each id
delete_trajectories(ts, ids) ==
    [r \in {x \in DOMAIN ts : x.game_id \notin ids} |-> ts[r]]

\* SELECT game_id FROM games ORDER BY timestamp LIMIT k
oldest_game_ids(gs, k) ==
    {g.game_id : g \in {x \in gs :
        Cardinality({y \in gs : y.timestamp < x.timestamp}) < k}}

\* a cleanup that deletes one game too few
cleanup_excess_keeps_one(total_games) ==
    IF total_games > max_games THEN total_games - max_games - 1 ELSE 0

\* _cleanup_old_games, first query: how many games to delete
cleanup_excess(total_games) ==
    IF total_games > max_games THEN total_games - max_games ELSE 0

\* add_game up to its first commit: take the instance lock, INSERT OR
\* REPLACE the game row stamped datetime.now(), commit.
add_game_insert(w, game_id, winner, total_moves, traj, source) ==
    /\ writer[w].pc = "idle"
    /\ lock[InstanceOf(w)] = "free"
    /\ adds' = adds + 1
    /\ clock' = clock + 1
    /\ lock' = [lock EXCEPT ![InstanceOf(w)] = w]
    /\ games' = insert_or_replace(games,
                    [game_id |-> game_id, winner |-> winner,
                     total_moves |-> total_moves, timestamp |-> clock + 1])
    /\ writer' = [writer EXCEPT ![w] =
                    [pc |-> "cleanup", source |-> source, game_id |-> game_id,
                     winner |-> winner, traj |-> traj, i |-> 0]]
    /\ UNCHANGED <<trajectories, codecVars, coordVars, libraryVars>>

\* record_game (api/ai.py): validate the winner and call add_game
RecordGame(w, game_id, winner, traj) ==
    /\ w \in ApiThreads
    /\ add_game_insert(w, game_id, valid_winner(winner), Len(traj), traj,
                       "record_game")

\* _play_single_game (selfplay.py): a finished self-play game with a
\* non-empty history is stored under a fresh identifier
SelfPlayGame(w, winner, traj) ==
    /\ w = "sp"
    /\ Len(traj) > 0
    /\ add_game_insert(w, SelfPlayGameId(adds + 1), winner, Len(traj), traj,
                       "selfplay")

\* _cleanup_old_games: SELECT COUNT(*) FROM games; when over the cap go on
\* to select the oldest, else add_game returns and releases the lock
CleanupCount(w) ==
    /\ writer[w].pc = "cleanup"
    /\ IF cleanup_excess(Cardinality(games)) > 0
       THEN /\ writer' = [writer EXCEPT ![w] =
                  [pc |-> "select", source |-> @.source, game_id |-> @.game_id,
                   winner |-> @.winner, traj |-> @.traj, i |-> @.i,
                   excess |-> cleanup_excess(Cardinality(games))]]
            /\ UNCHANGED lock
       ELSE /\ writer' = [writer EXCEPT ![w].pc = "steps"]
            /\ lock' = [lock EXCEPT ![InstanceOf(w)] = "free"]
    /\ UNCHANGED <<games, trajectories, clock, adds, codecVars, coordVars, libraryVars>>

\* _cleanup_old_games: SELECT game_id ... ORDER BY timestamp LIMIT excess
CleanupSelect(w) ==
    /\ writer[w].pc = "select"
    /\ writer' = [writer EXCEPT ![w] =
          [pc |-> "delete", source |-> @.source, game_id |-> @.game_id,
           winner |-> @.winner, traj |-> @.traj, i |-> @.i,
           old_game_ids |-> oldest_game_ids(games, @.excess)]]
    /\ UNCHANGED <<games, trajectories, clock, lock, adds, codecVars, coordVars, libraryVars>>

\* _cleanup_old_games: the two DELETEs per old game and the commit; then
\* add_game returns and releases the lock
CleanupDelete(w) ==
    /\ writer[w].pc = "delete"
    /\ trajectories' = delete_trajectories(trajectories, writer[w].old_game_ids)
    /\ games' = {g \in games : g.game_id \notin writer[w].old_game_ids}
    /\ writer' = [writer EXCEPT ![w] =
          [pc |-> "steps", source |-> @.source, game_id |-> @.game_id,
           winner |-> @.winner, traj |-> @.traj, i |-> @.i]]
    /\ lock' = [lock EXCEPT ![InstanceOf(w)] = "free"]
    /\ UNCHANGED <<clock, adds, codecVars, coordVars, libraryVars>>

\* calculate_reward on the boards of each step kind, tabulated
engine_reward ==
    [kind \in 1..Len(StepKinds), is_terminal \in BOOLEAN,
     winner \in {"ai", "human", "draw"} |->
        calculate_reward(StepKinds[kind].before, StepKinds[kind].after,
                         is_terminal, winner)]

\* record_game: reward = calculate_reward(board_state, next_state,
\* is_terminal, winner) for step i of the request's trajectory
record_game_reward(kind, is_terminal, winner) ==
    engine_reward[kind, is_terminal, winner]

\* selfplay.py:150  reward=0.0  "Placeholder - backend calculates"
selfplay_reward(kind, is_terminal, winner) == FracInt(0)

step_reward(source, kind, is_terminal, winner) ==
    IF source = "record_game"
    THEN record_game_reward(kind, is_terminal, winner)
    ELSE selfplay_reward(kind, is_terminal, winner)

\* add_trajectory for the next step of the writer's game: under the
\* instance lock, INSERT the row and commit.  Both writers flag the last
\* step of the trajectory as done.
AddTrajectory(w) ==
    /\ writer[w].pc = "steps"
    /\ writer[w].i < Len(writer[w].traj)
    /\ lock[InstanceOf(w)] = "free"
    /\ LET i           == writer[w].i
           kind        == writer[w].traj[i + 1]
           is_terminal == (i = Len(writer[w].traj) - 1)
       IN  trajectories' = insert_row(trajectories,
               [game_id |-> writer[w].game_id, move_number |-> i,
                kind |-> kind,
                reward |-> step_reward(writer[w].source, kind, is_terminal,
                                       writer[w].winner),
                done |-> is_terminal, player |-> "black",
                outcome |-> writer[w].winner])
    /\ writer' = [writer EXCEPT ![w].i = @ + 1]
    /\ UNCHANGED <<games, clock, lock, adds, codecVars, coordVars, libraryVars>>

\* every step is stored: the writer returns (record_game reads get_stats
\* for its log line first)
WriterReturn(w) ==
    /\ writer[w].pc = "steps"
    /\ writer[w].i = Len(writer[w].traj)
    /\ writer' = [writer EXCEPT ![w] = IdleWriter]
    /\ UNCHANGED <<games, trajectories, clock, lock, adds, codecVars, coordVars, libraryVars>>

StoreNext ==
    \/ /\ adds < MaxAdds
       /\ \E w \in ApiThreads, g \in ClientGameIds, win \in RequestWinners,
             traj \in Trajectories : RecordGame(w, g, win, traj)
    \/ /\ adds < MaxAdds
       /\ \E win \in {"ai", "human", "draw"}, traj \in Trajectories :
             SelfPlayGame("sp", win, traj)
    \/ \E w \in Writers : CleanupCount(w)
    \/ \E w \in Writers : CleanupSelect(w)
    \/ \E w \in Writers : CleanupDelete(w)
    \/ \E w \in Writers : AddTrajectory(w)
    \/ \E w \in Writers : WriterReturn(w)

\* the same writers with one more add_game call and the outcome left aside
EvictionNext ==
    \/ /\ adds < MaxEvictionAdds
       /\ \E w \in ApiThreads, g \in ClientGameIds, traj \in Trajectories :
             RecordGame(w, g, "ai", traj)
    \/ /\ adds < MaxEvictionAdds
       /\ \E traj \in Trajectories : SelfPlayGame("sp", "ai", traj)
    \/ \E w \in Writers : CleanupCount(w)
    \/ \E w \in Writers : CleanupSelect(w)
    \/ \E w \in Writers : CleanupDelete(w)
    \/ \E w \in Writers : AddTrajectory(w)
    \/ \E w \in Writers : WriterReturn(w)


(***************************************************************************)
(* Dual-model coordinator and training loop: learning/worker.py; the       *)
(* request-serving side: api/ai.py.  Two processes, as started by          *)
(* launch.py: uvicorn api.main:app and python -m learning.worker.  They    *)
(* share the checkpoint file and the database, and no memory.              *)
(***************************************************************************)

\* optimizer steps in one run of the model
MaxSteps == 2
\* starts of the training process in one run of the model
MaxBoots == 2
\* train_loop(save_interval=10): save every save_interval-th iteration
save_interval == 2
\* train_loop: max_consecutive_errors
max_consecutive_errors == 5

\* A2CLearner(use_advanced_network=True): the training process builds
\* AdvancedPolicyValueNet, api/ai.py builds PolicyValueNet
use_advanced_network == TRUE

\* A network's parameters, in state_dict order.  "trunk" stands for the
\* layers whose names differ between the two architectures, "head" for the
\* policy_* and value_* layers, which have the same names and shapes in both.
ParamOrder == <<"trunk", "head">>
Params == {ParamOrder[i] : i \in 1..Len(ParamOrder)}
SharedParams == {"head"}

learner_arch == IF use_advanced_network THEN "advanced" ELSE "standard"
api_arch == "standard"

\* The value of one parameter: which weight set it belongs to (the random
\* initialisation of one of the three network objects, or the result of
\* the id-th optimizer step) and whether a forward pass through it gives
\* finite outputs.
NoWeights == [set |-> "none", id |-> 0, finite |-> TRUE]
FreshWeights(object) == [set |-> object, id |-> 0, finite |-> TRUE]
TrainedWeights(n, finite) == [set |-> "trained", id |-> n, finite |-> finite]

NoModel == [p \in Params |-> NoWeights]
FreshModel(object) == [p \in Params |-> FreshWeights(object)]

NoCheckpoint ==
    [exists |-> FALSE, arch |-> "none", model_state_dict |-> NoModel,
     training_steps |-> 0]

\* _check_model_health: a forward pass on a test input; softmax and tanh
\* keep finite outputs inside the tested ranges, so the check fails exactly
\* when some parameter makes the outputs non-finite.
_check_model_health(m) == \A p \in Params : m[p].finite

\* a sync that copies whatever the health check says
sync_proceeds_always(healthy) == TRUE

\* sync_models: "if not self._check_model_health(): return False"
sync_proceeds(healthy) == healthy

\* torch load_state_dict(strict): every parameter of the target that the
\* source has under the same name and shape is copied in place; missing or
\* unexpected keys make the call raise afterwards.
load_state_dict(target, target_arch, source, source_arch) ==
    [p \in Params |->
        IF source_arch = target_arch \/ p \in SharedParams
        THEN source[p] ELSE target[p]]

load_raises(target_arch, source_arch) == source_arch # target_arch

\* save_model: torch.save of model_training and training_steps
saved_checkpoint(m, steps) ==
    [exists |-> TRUE, arch |-> learner_arch, model_state_dict |-> m,
     training_steps |-> steps]

\* A2CLearner.__init__ with _load_model: both networks are initialised at
\* random, then both receive the checkpoint when there is one.
loaded_training(ckpt) ==
    IF ckpt.exists
    THEN load_state_dict(FreshModel("training"), learner_arch,
                         ckpt.model_state_dict, ckpt.arch)
    ELSE FreshModel("training")

loaded_live(ckpt) ==
    IF ckpt.exists /\ ~load_raises(learner_arch, ckpt.arch)
    THEN load_state_dict(FreshModel("live"), learner_arch,
                         ckpt.model_state_dict, ckpt.arch)
    ELSE FreshModel("live")

\* _load_model: self.training_steps = checkpoint.get('training_steps', 0)
\* when the checkpoint went into the networks, 0 when it was rejected
loaded_training_steps(ckpt) ==
    IF ckpt.exists /\ ~load_raises(learner_arch, ckpt.arch)
    THEN ckpt.training_steps
    ELSE 0

\* A2CLearner.__init__ after _load_model has returned: "Training
\* statistics: self.training_steps = 0"
initial_training_steps(loaded) == 0

\* api/ai.py at import: model = PolicyValueNet(), then the checkpoint
loaded_model(ckpt) ==
    IF ckpt.exists
    THEN load_state_dict(FreshModel("model"), api_arch,
                         ckpt.model_state_dict, ckpt.arch)
    ELSE FreshModel("model")

loaded_version(ckpt) ==
    IF ~ckpt.exists THEN [tag |-> "v0.001", n |-> 0]
    ELSE IF load_raises(api_arch, ckpt.arch)
         THEN [tag |-> "v2-untrained", n |-> 0]
         ELSE [tag |-> "v", n |-> ckpt.training_steps]

\* a model that reads the training process's serving instance whatever
\* the binding
get_inference_model_live(process) == "model_live"

\* get_inference_model: the learner's live model when a learner is bound in
\* this process, else the module's own model
get_inference_model(process) ==
    IF learner[process] # "None" THEN "model_live" ELSE "model"

\* the parameter p of the object an inference was handed
ObjectParam(object, p) ==
    IF object = "model_live" THEN model_live[p] ELSE model[p]

\* how many times parameter p of that object has been overwritten since
\* its process loaded it
ObjectEpoch(object, p) ==
    IF object = "model_live"
    THEN syncs + (IF wPc = "copying" /\ p \in copied THEN 1 ELSE 0)
    ELSE 0

IdleInfer ==
    [pc |-> "idle", object |-> "none", n |-> 0, read |-> NoModel,
     epoch |-> [p \in Params |-> 0], overlapped |-> FALSE,
     startPublished |-> NoModel]

\* ---- the training process ----

\* train_loop(batch_size=32); one transition makes a batch here
batch_size == 1

\* numbers of stored transitions an iteration can find
StoredCounts == 0..batch_size

\* no iteration has looked into the store
NothingFetched == [looked |-> FALSE, total |-> 0, black |-> 0]

\* stats['total_trajectories'] >= batch_size: the transitions of every
\* player count
enough_total(total) == total >= batch_size

\* number of transitions the sampler returns for player="black":
\* min(batch_size, stored transitions of that player)
sampled(black) == IF black < batch_size THEN black ELSE batch_size

\* a sampler result that always passes for a batch
enough_sampled_always(black) == TRUE

\* train_on_trajectories goes on to the optimizer step
enough_sampled(black) == ~(sampled(black) < batch_size)

\* an error budget that is never used up
too_many_errors_never(n) == FALSE

\* consecutive_errors >= max_consecutive_errors
too_many_errors(n) == n >= max_consecutive_errors

\* one more iteration has ended; counted up to max_consecutive_errors
IterCount(n) == IF n < max_consecutive_errors THEN n + 1 ELSE n

\* the process is not running: its memory is gone
WorkerGone ==
    /\ wPc' = "down"
    /\ model_training' = NoModel
    /\ model_live' = NoModel
    /\ training_steps' = 0
    /\ learning_paused' = FALSE
    /\ avg_loss_window' = <<>>
    /\ consecutive_errors' = 0
    /\ iteration' = 0
    /\ copied' = {}
    /\ syncs' = 0
    /\ sync_health' = "none"
    /\ sync_result' = "none"
    /\ live_before' = NoModel
    /\ learner' = [learner EXCEPT !["worker"] = "None"]

\* process_finished_games: A2CLearner() (random initialisation, _load_model,
\* training_steps = 0), ai.set_learner(learner) in this process, and entry
\* into train_loop
WorkerStart ==
    /\ wPc = "down"
    /\ boots < MaxBoots
    /\ boots' = boots + 1
    /\ model_training' = loaded_training(checkpoint)
    /\ model_live' = loaded_live(checkpoint)
    /\ training_steps' =
          initial_training_steps(loaded_training_steps(checkpoint))
    /\ learning_paused' = FALSE
    /\ avg_loss_window' = <<>>
    /\ consecutive_errors' = 0
    /\ iteration' = 0
    /\ copied' = {}
    /\ syncs' = 0
    /\ sync_health' = "none"
    /\ sync_result' = "none"
    /\ live_before' = NoModel
    /\ learner' = [learner EXCEPT !["worker"] = "learner"]
    /\ wPc' = "loop"
    /\ iters' = 0
    /\ clean_iters' = FALSE
    /\ exit_save' = "none"
    /\ signalled' = FALSE
    /\ iter_saved' = FALSE
    /\ fetched' = NothingFetched
    /\ UNCHANGED <<checkpoint, apiVars, trained, validated, published,
                   codecVars, storeVars, libraryVars>>

\* train_loop: learning is paused; sleep and continue
IterPaused ==
    /\ wPc = "loop"
    /\ learning_paused
    /\ wPc' = "sleep"
    /\ UNCHANGED <<model_training, model_live, training_steps,
                   learning_paused, avg_loss_window, consecutive_errors,
                   iteration, copied,
                   syncs, sync_health, sync_result, live_before, checkpoint,
                   apiVars, learner, historyVars, loopVars,
                   codecVars, storeVars, libraryVars>>

\* train_loop: too few transitions stored, or enough of them stored but
\* too few of player "black", so that train_on_trajectories returns None;
\* sleep
IterWait(total, black) ==
    /\ wPc = "loop"
    /\ ~learning_paused
    /\ black <= total
    /\ \/ ~enough_total(total)
       \/ ~enough_sampled(black)
    /\ fetched' = [looked |-> TRUE, total |-> total, black |-> black]
    /\ wPc' = "sleep"
    /\ UNCHANGED <<model_training, model_live, training_steps,
                   learning_paused, avg_loss_window, consecutive_errors,
                   iteration, copied,
                   syncs, sync_health, sync_result, live_before, checkpoint,
                   apiVars, learner, historyVars, iters, clean_iters,
                   exit_save, signalled,
                   iter_saved, codecVars, storeVars, libraryVars>>

\* what optimizer.step() leaves in model_training: new values for every
\* parameter; non-finite values stay non-finite
optimizer_step(m, finite) ==
    [p \in Params |->
        TrainedWeights(trained + 1, finite /\ _check_model_health(m))]

\* A2CLearner(max_loss_threshold=10.0)
max_loss_threshold == 10
\* avg_loss_window keeps the last loss_window losses (100 in the source)
loss_window == 2
\* total losses of a training step: a small and a large one
Losses == {0, 15}
\* the total loss when the forward pass is not finite
LossNaN == -1

RECURSIVE SeqSum(_)
SeqSum(q) == IF q = <<>> THEN 0 ELSE Head(q) + SeqSum(Tail(q))

\* avg_loss_window.append(total_loss.item()), then pop(0) when the window
\* has grown beyond its size
window_append(window, loss) ==
    IF Len(window) + 1 > loss_window
    THEN Tail(Append(window, loss))
    ELSE Append(window, loss)

\* a kill switch that never trips
kill_switch_off(window) == FALSE

\* avg_recent_loss > self.max_loss_threshold, with np.mean of the window; a
\* NaN in the window makes the mean NaN and the comparison false
kill_switch(window) ==
    /\ \A i \in 1..Len(window) : window[i] # LossNaN
    /\ SeqSum(window) > max_loss_threshold * Len(window)

\* the total loss of a step: computed by the forward pass through the
\* weights the step starts from
step_loss(m, loss) == IF _check_model_health(m) THEN loss ELSE LossNaN

\* train_on_trajectories returns its statistics: the optimizer has stepped,
\* training_steps is incremented, the loss has entered the window and the
\* kill switch has paused learning when the window mean is over the
\* threshold; train_loop counts the iteration and clears the error counter
TrainStep(finite, loss, total, black) ==
    /\ wPc = "loop"
    /\ ~learning_paused
    /\ black <= total
    /\ enough_total(total)
    /\ enough_sampled(black)
    /\ fetched' = [looked |-> TRUE, total |-> total, black |-> black]
    /\ trained < MaxSteps
    /\ trained' = trained + 1
    /\ model_training' = optimizer_step(model_training, finite)
    /\ training_steps' = training_steps + 1
    /\ avg_loss_window' =
          window_append(avg_loss_window, step_loss(model_training, loss))
    /\ learning_paused' =
          kill_switch(window_append(avg_loss_window,
                                    step_loss(model_training, loss)))
    /\ iteration' = iteration + 1
    /\ consecutive_errors' = 0
    /\ wPc' = "sync"
    /\ UNCHANGED <<model_live, copied, syncs, sync_health, sync_result,
                   live_before, checkpoint, apiVars, learner, boots,
                   validated, published, iters, clean_iters, exit_save,
                   signalled, iter_saved, codecVars, storeVars, libraryVars>>

\* train_loop, except Exception: the error is counted; when there have
\* been too many in a row the loop tries save_model, whatever comes of it,
\* and ends; otherwise it sleeps in the handler ("retry").  A
\* load_state_dict the exception has interrupted is not resumed, and what
\* the iteration had fetched and been returned is gone with its frame.
ExceptHandler ==
    /\ iters' = IterCount(iters)
    /\ fetched' = NothingFetched
    /\ iter_saved' = FALSE
    /\ IF too_many_errors(consecutive_errors + 1)
       THEN /\ \E saved \in BOOLEAN :
                 /\ checkpoint' = IF saved
                                  THEN saved_checkpoint(model_training,
                                                        training_steps)
                                  ELSE checkpoint
                 /\ exit_save' = IF saved THEN "saved" ELSE "failed"
            /\ WorkerGone
       ELSE /\ consecutive_errors' = consecutive_errors + 1
            /\ wPc' = "retry"
            /\ copied' = {}
            /\ sync_health' = "none"
            /\ sync_result' = "none"
            /\ live_before' = NoModel
            /\ UNCHANGED <<model_training, model_live, training_steps,
                           learning_paused, avg_loss_window, iteration,
                           syncs, checkpoint, learner, exit_save>>

\* the iteration raises before the optimizer has stepped (get_stats,
\* sampling, encoding, the forward or backward pass)
TrainRaise ==
    /\ wPc = "loop"
    /\ ~learning_paused
    /\ ExceptHandler
    /\ UNCHANGED <<apiVars, historyVars, clean_iters, signalled,
                   codecVars, storeVars, libraryVars>>

\* sync_models, first half: the health check of model_training; on failure
\* return False to train_loop, else start load_state_dict into model_live
SyncCheck ==
    /\ wPc = "sync"
    /\ live_before' = model_live
    /\ LET healthy == _check_model_health(model_training)
       IN  /\ sync_health' = IF healthy THEN "passed" ELSE "failed"
           /\ validated' = IF healthy
                           THEN validated \cup
                                  {model_training[p] : p \in Params}
                           ELSE validated
           /\ IF sync_proceeds(healthy)
              THEN /\ wPc' = "copying"
                   /\ UNCHANGED sync_result
              ELSE /\ wPc' = "synced"
                   /\ sync_result' = "False"
    /\ UNCHANGED <<model_training, model_live, training_steps,
                   learning_paused, avg_loss_window, consecutive_errors,
                   iteration, copied,
                   syncs, checkpoint, apiVars, learner, trained, boots,
                   published, loopVars, codecVars, storeVars, libraryVars>>

\* sync_models, second half: load_state_dict copies the next parameter in
\* place; after the last one sync_models returns True
SyncCopy ==
    /\ wPc = "copying"
    /\ LET p == ParamOrder[Cardinality(copied) + 1]
           last == Cardinality(copied) + 1 = Len(ParamOrder)
       IN  /\ model_live' = [model_live EXCEPT ![p] = model_training[p]]
           /\ copied' = IF last THEN {} ELSE copied \cup {p}
           /\ syncs' = IF last THEN syncs + 1 ELSE syncs
           /\ sync_result' = IF last THEN "True" ELSE sync_result
           /\ published' = IF last THEN model_training ELSE published
           /\ wPc' = IF last THEN "synced" ELSE "copying"
    /\ UNCHANGED <<model_training, training_steps, learning_paused,
                   avg_loss_window,
                   consecutive_errors, iteration, sync_health, live_before,
                   checkpoint, apiVars, learner, trained, boots, validated,
                   loopVars, codecVars, storeVars, libraryVars>>

\* a periodic save that does not look at what sync_models returned
save_due_any_sync(result, n) == n % save_interval = 0

\* if self.sync_models(): if iteration % save_interval == 0: save_model()
save_due(result, n) == result = "True" /\ n % save_interval = 0

\* train_loop after sync_models has returned: save_model when the sync
\* succeeded and this is a save_interval-th iteration; a save_model that
\* raises takes the loop to its exception handler
AfterSync ==
    /\ wPc = "synced"
    /\ \/ /\ save_due(sync_result, iteration)
          /\ checkpoint' = saved_checkpoint(model_training, training_steps)
          /\ iter_saved' = TRUE
          /\ wPc' = "sleep"
          /\ UNCHANGED <<model_training, model_live, training_steps,
                         learning_paused, avg_loss_window,
                         consecutive_errors, iteration, copied, syncs,
                         sync_health, sync_result, live_before, learner,
                         fetched, iters, clean_iters, exit_save>>
       \/ /\ save_due(sync_result, iteration)
          /\ ExceptHandler
          /\ UNCHANGED clean_iters
       \/ /\ ~save_due(sync_result, iteration)
          /\ wPc' = "sleep"
          /\ UNCHANGED <<model_training, model_live, training_steps,
                         learning_paused, avg_loss_window,
                         consecutive_errors, iteration, copied, syncs,
                         sync_health, sync_result, live_before, learner,
                         checkpoint, fetched, iters, clean_iters, exit_save,
                         iter_saved>>
    /\ UNCHANGED <<apiVars, historyVars, signalled, codecVars,
                   storeVars, libraryVars>>

\* time.sleep(training_interval) is over: the one that ends an iteration
\* inside the try ("sleep"), which has then ended without raising, or the
\* one of the exception handler ("retry")
Sleep ==
    /\ wPc \in {"sleep", "retry"}
    /\ wPc' = "loop"
    /\ iters' = IF wPc = "sleep" THEN 0 ELSE iters
    /\ clean_iters' = (wPc = "sleep" \/ clean_iters)
    /\ sync_health' = "none"
    /\ sync_result' = "none"
    /\ live_before' = NoModel
    /\ iter_saved' = FALSE
    /\ fetched' = NothingFetched
    /\ UNCHANGED <<model_training, model_live, training_steps,
                   learning_paused, avg_loss_window, consecutive_errors,
                   iteration, copied,
                   syncs, checkpoint, apiVars, learner, historyVars,
                   exit_save, signalled, codecVars,
                   storeVars, libraryVars>>

\* SIGINT or SIGTERM at any point of train_loop: signal_handler saves
\* model_training and raises SystemExit, which ends the loop and the process
Signal ==
    /\ wPc # "down"
    /\ signalled' = TRUE
    /\ checkpoint' = saved_checkpoint(model_training, training_steps)
    /\ WorkerGone
    /\ UNCHANGED <<apiVars, historyVars, fetched, iters, clean_iters,
                   exit_save, iter_saved, codecVars, storeVars, libraryVars>>

\* SIGINT or SIGTERM when save_model raises inside signal_handler: the
\* handler does not reach its raise SystemExit(0), and the exception of
\* save_model surfaces in the loop where the signal interrupted it.  Inside
\* the try it is caught by `except Exception` like an error of the
\* iteration; in the sleep of the exception handler nothing catches it,
\* it leaves train_loop and the process ends.
SignalSaveRaises ==
    /\ wPc # "down"
    /\ signalled' = TRUE
    /\ IF wPc = "retry"
       THEN /\ WorkerGone
            /\ UNCHANGED <<checkpoint, fetched, iters, exit_save,
                           iter_saved>>
       ELSE ExceptHandler
    /\ UNCHANGED <<apiVars, historyVars, clean_iters,
                   codecVars, storeVars, libraryVars>>

\* ---- the request-serving process ----

\* uvicorn imports api.main, hence api.ai: model = PolicyValueNet() and the
\* checkpoint, if there is one, is loaded into it
ApiStart ==
    /\ ~apiUp
    /\ apiUp' = TRUE
    /\ model' = loaded_model(checkpoint)
    /\ MODEL_VERSION' = loaded_version(checkpoint)
    /\ infer' = IdleInfer
    /\ UNCHANGED <<workerVars, checkpoint, learner, historyVars, loopVars, codecVars,
                   storeVars, libraryVars>>

\* the serving process stops
ApiStop ==
    /\ apiUp
    /\ apiUp' = FALSE
    /\ model' = NoModel
    /\ MODEL_VERSION' = [tag |-> "none", n |-> 0]
    /\ infer' = IdleInfer
    /\ UNCHANGED <<workerVars, checkpoint, learner, historyVars, loopVars, codecVars,
                   storeVars, libraryVars>>

\* POST /ai/resume in the serving process: learner.resume_learning() on the
\* learner bound in this process, "no_learner" when there is none
ApiResume ==
    /\ apiUp
    /\ learning_paused' =
          IF learner["api"] # "None" THEN FALSE ELSE learning_paused
    /\ UNCHANGED <<wPc, model_training, model_live, training_steps,
                   avg_loss_window, consecutive_errors, iteration, copied,
                   syncs, sync_health, sync_result, live_before, checkpoint,
                   apiVars, learner, historyVars, loopVars, codecVars, storeVars, libraryVars>>

\* infer_move up to get_inference_model()
InferBegin ==
    /\ apiUp
    /\ infer.pc = "idle"
    /\ infer' = [IdleInfer EXCEPT !.pc = "reading",
                                  !.object = get_inference_model("api"),
                                  !.startPublished = published]
    /\ UNCHANGED <<workerVars, checkpoint, apiUp, model, MODEL_VERSION,
                   learner, historyVars, loopVars, codecVars, storeVars, libraryVars>>

\* the forward pass reads the next parameter of the model it was handed
InferRead ==
    /\ infer.pc = "reading"
    /\ LET p == ParamOrder[infer.n + 1]
       IN  infer' = [infer EXCEPT
              !.read[p] = ObjectParam(infer.object, p),
              !.epoch[p] = ObjectEpoch(infer.object, p),
              !.overlapped = @ \/ (wPc = "copying" /\ copied # {}),
              !.n = @ + 1,
              !.pc = IF infer.n + 1 = Len(ParamOrder)
                     THEN "done" ELSE "reading"]
    /\ UNCHANGED <<workerVars, checkpoint, apiUp, model, MODEL_VERSION,
                   learner, historyVars, loopVars, codecVars, storeVars, libraryVars>>

\* infer_move returns (selected_move, MODEL_VERSION)
InferReturn ==
    /\ infer.pc = "done"
    /\ infer' = IdleInfer
    /\ UNCHANGED <<workerVars, checkpoint, apiUp, model, MODEL_VERSION,
                   learner, historyVars, loopVars, codecVars, storeVars, libraryVars>>

(***************************************************************************)
(* Codec specification                                                     *)
(***************************************************************************)

\* The state after construction: no codec call running, an empty database,
\* no checkpoint file, neither process started.
\* ---- the curriculum manager ----

\* the number of games that stands for 100 games of the source
StageUnit == 1

\* max_games of the last stage: float('inf')
NoLimit == -1

\* CurriculumManager.stages, in the order of the dict
stages ==
    << [name |-> "basic_captures", min_games |-> 0,
        max_games |-> 1 * StageUnit],
       [name |-> "multi_capture_chains", min_games |-> 1 * StageUnit,
        max_games |-> 3 * StageUnit],
       [name |-> "defensive_positioning", min_games |-> 3 * StageUnit,
        max_games |-> 6 * StageUnit],
       [name |-> "king_endgames", min_games |-> 6 * StageUnit,
        max_games |-> 10 * StageUnit],
       [name |-> "mastery", min_games |-> 10 * StageUnit,
        max_games |-> NoLimit] >>

\* ReplayBuffer(max_games=10000): the store keeps more games than the last
\* stage asks for
stored_games_cap == 10 * StageUnit + 2

\* config["min_games"] <= games_played < config["max_games"]
in_stage(config, games_played) ==
    /\ config.min_games <= games_played
    /\ config.max_games = NoLimit \/ games_played < config.max_games

RECURSIVE first_stage(_, _)
first_stage(i, games_played) ==
    IF i > Len(stages) THEN "mastery"
    ELSE IF in_stage(stages[i], games_played) THEN stages[i].name
    ELSE first_stage(i + 1, games_played)

\* get_current_stage: the first stage of the dict whose range holds the count
get_current_stage(games_played) == first_stage(1, games_played)

\* position of a stage in the curriculum; 0 before any stage was determined
StageRank(name) ==
    IF name = "None" THEN 0
    ELSE CHOOSE i \in 1..Len(stages) : stages[i].name = name

\* ---- the samplers ----

NoCall == [tag |-> "none"]

\* batch sizes and ratios of get_mixed_trajectories calls; a ratio is
\* <<numerator, denominator>>
MaxMixedBatch == 50
MixedBatchSizes == 0..MaxMixedBatch
RecentRatios == {<<0, 1>>, <<1, 2>>, <<4, 5>>, <<1, 1>>}

\* int(batch_size * recent_ratio): the product cut off towards zero.  For
\* the ratios above the float product cut off is the exact product cut off.
int_product(n, ratio) == (n * ratio[1]) \div ratio[2]

\* recent_count and historical_count of get_mixed_trajectories
mixed_counts(batch, recent_ratio) ==
    [recent |-> int_product(batch, recent_ratio),
     historical |-> batch - int_product(batch, recent_ratio)]

\* rows of the requested player and their priorities
MaxRows == 3
PriorityValues == {0, 1, 2}
PriorityLists == UNION {[1..n -> PriorityValues] : n \in 0..MaxRows}
PrioritizedBatchSizes == 0..(MaxRows + 1)

\* probabilities of get_prioritized_trajectories, as weights: priority **
\* (1.0 / temperature) is zero exactly for a zero priority; when all are
\* zero every row gets the same weight
probabilities(priorities) ==
    IF \A i \in 1..Len(priorities) : priorities[i] = 0
    THEN [i \in 1..Len(priorities) |-> 1]
    ELSE priorities

\* size=min(batch_size, len(rows))
choice_size(priorities, batch) ==
    IF batch < Len(priorities) THEN batch ELSE Len(priorities)

\* the rows np.random.choice can draw: those of non-zero probability
Drawable(priorities) ==
    {i \in 1..Len(priorities) : probabilities(priorities)[i] # 0}

\* np.random.choice(n, size, replace=False, p): "Fewer non-zero entries in p
\* than size" is a ValueError
choice_raises(priorities, batch) ==
    Cardinality(Drawable(priorities)) < choice_size(priorities, batch)

\* the draws np.random.choice can return: size different drawable rows, in
\* any order
Choices(priorities, batch) ==
    {q \in [1..choice_size(priorities, batch) -> Drawable(priorities)] :
        \A i, j \in 1..choice_size(priorities, batch) :
            i # j => q[i] # q[j]}

\* get_prioritized_trajectories: [] when no row matches, else the chosen rows
prioritized_results(priorities, batch) ==
    IF priorities = <<>> THEN {[tag |-> "returned", selected |-> <<>>]}
    ELSE IF choice_raises(priorities, batch) THEN {[tag |-> "ValueError"]}
    ELSE {[tag |-> "returned", selected |-> q] :
             q \in Choices(priorities, batch)}

Init ==
    /\ cPc = "idle"
    /\ cArgs = <<0, 0, 0, 0>>
    /\ cIdx = -1
    /\ cDec = [tag |-> "unset"]
    /\ games = {}
    /\ trajectories = <<>>
    /\ clock = 0
    /\ lock = [i \in {"api", "selfplay"} |-> "free"]
    /\ writer = [w \in Writers |-> IdleWriter]
    /\ adds = 0
    /\ wPc = "down"
    /\ model_training = NoModel
    /\ model_live = NoModel
    /\ training_steps = 0
    /\ learning_paused = FALSE
    /\ avg_loss_window = <<>>
    /\ consecutive_errors = 0
    /\ iteration = 0
    /\ copied = {}
    /\ syncs = 0
    /\ sync_health = "none"
    /\ sync_result = "none"
    /\ live_before = NoModel
    /\ checkpoint = NoCheckpoint
    /\ apiUp = FALSE
    /\ model = NoModel
    /\ MODEL_VERSION = [tag |-> "none", n |-> 0]
    /\ learner = [process \in {"api", "worker"} |-> "None"]
    /\ infer = IdleInfer
    /\ trained = 0
    /\ boots = 0
    /\ validated = {}
    /\ published = NoModel
    /\ fetched = NothingFetched
    /\ iters = 0
    /\ clean_iters = FALSE
    /\ exit_save = "none"
    /\ signalled = FALSE
    /\ iter_saved = FALSE
    /\ games_count = 0
    /\ games_completed = 0
    /\ current_stage = "None"
    /\ highest_reported = 0
    /\ sPc = "idle"
    /\ sArgs = NoCall
    /\ sOut = NoCall

\* A caller encodes a move (infer_move, train_on_trajectories, self-play).
CodecEncode(fr, fc, tr, tc) ==
    /\ cPc = "idle"
    /\ cArgs' = <<fr, fc, tr, tc>>
    /\ cIdx' = encode_move(fr, fc, tr, tc)
    /\ cDec' = [tag |-> "unset"]
    /\ cPc' = "encoded"
    /\ UNCHANGED <<storeVars, coordVars, libraryVars>>

\* The index just produced is decoded again.
CodecDecode ==
    /\ cPc = "encoded"
    /\ cDec' = decode_move(cIdx)
    /\ cPc' = "decoded"
    /\ UNCHANGED <<cArgs, cIdx, storeVars, coordVars, libraryVars>>

\* The caller is done with the result; the codec keeps no state of its own.
CodecReturn ==
    /\ cPc \in {"encoded", "decoded"}
    /\ cPc' = "idle"
    /\ cArgs' = <<0, 0, 0, 0>>
    /\ cIdx' = -1
    /\ cDec' = [tag |-> "unset"]
    /\ UNCHANGED <<storeVars, coordVars, libraryVars>>

CodecNext ==
    \/ /\ cPc = "idle"
       /\ \E fr \in Coords, fc \in Coords, tr \in Coords, tc \in Coords :
              CodecEncode(fr, fc, tr, tc)
    \/ CodecDecode
    \/ CodecReturn

CodecSpec == Init /\ [][CodecNext]_vars

StoreSpec == Init /\ [][StoreNext]_vars

EvictionSpec == Init /\ [][EvictionNext]_vars

Next ==
    \/ WorkerStart
    \/ IterPaused
    \/ \E total \in StoredCounts, black \in StoredCounts :
          IterWait(total, black)
    \/ \E finite \in BOOLEAN, loss \in Losses, total \in StoredCounts,
          black \in StoredCounts : TrainStep(finite, loss, total, black)
    \/ TrainRaise
    \/ SyncCheck
    \/ SyncCopy
    \/ AfterSync
    \/ Sleep
    \/ Signal
    \/ SignalSaveRaises
    \/ ApiStart
    \/ ApiStop
    \/ ApiResume
    \/ InferBegin
    \/ InferRead
    \/ InferReturn

Spec == Init /\ [][Next]_vars

\* The training process on its own.  The serving process shares no memory
\* with it and writes neither the checkpoint file nor any field of the
\* learner (learner is None there, so POST /ai/resume changes nothing), so
\* what train_loop can do alone is what it can do beside the serving
\* process.
LoopNext ==
    \/ WorkerStart
    \/ IterPaused
    \/ \E total \in StoredCounts, black \in StoredCounts :
          IterWait(total, black)
    \/ \E finite \in BOOLEAN, loss \in Losses, total \in StoredCounts,
          black \in StoredCounts : TrainStep(finite, loss, total, black)
    \/ TrainRaise
    \/ SyncCheck
    \/ SyncCopy
    \/ AfterSync
    \/ Sleep
    \/ Signal
    \/ SignalSaveRaises

LoopSpec == Init /\ [][LoopNext]_vars

\* ---- the curriculum manager and the game count it follows ----

\* add_game: one more game, then _cleanup_old_games brings the count back
\* to the cap
CurAddGame ==
    /\ games_count' = IF games_count + 1 > stored_games_cap
                      THEN stored_games_cap
                      ELSE games_count + 1
    /\ UNCHANGED <<games_completed, current_stage, highest_reported,
                   samplerVars, codecVars, storeVars, coordVars>>

\* clear_all: DELETE FROM games
CurClearAll ==
    /\ games_count > 0
    /\ games_count' = 0
    /\ UNCHANGED <<games_completed, current_stage, highest_reported,
                   samplerVars, codecVars, storeVars, coordVars>>

\* train_on_trajectories: update_games_count(stats['total_games']); when
\* the step goes through, which takes stored games, get_stage_info reports
\* the stage of that count
CurTrain(trains) ==
    /\ trains => games_count > 0
    /\ games_completed' = games_count
    /\ current_stage' = IF trains THEN get_current_stage(games_count)
                        ELSE current_stage
    /\ highest_reported' =
          IF trains
          THEN Max(highest_reported,
                   StageRank(get_current_stage(games_count)))
          ELSE highest_reported
    /\ UNCHANGED <<games_count, samplerVars, codecVars, storeVars,
                   coordVars>>

\* a new A2CLearner builds a new CurriculumManager
CurRestart ==
    /\ games_completed' = 0
    /\ current_stage' = "None"
    /\ UNCHANGED <<games_count, highest_reported, samplerVars, codecVars,
                   storeVars, coordVars>>

CurriculumNext ==
    \/ CurAddGame
    \/ CurClearAll
    \/ \E trains \in BOOLEAN : CurTrain(trains)
    \/ CurRestart

CurriculumSpec == Init /\ [][CurriculumNext]_vars

\* ---- the samplers, called on their own ----

\* get_mixed_trajectories(batch_size, recent_ratio): the two limits it asks
\* get_recent_trajectories and get_random_trajectories for
MixedCall(batch, recent_ratio) ==
    /\ sPc = "idle"
    /\ sArgs' = [batch_size |-> batch, recent_ratio |-> recent_ratio]
    /\ sOut' = mixed_counts(batch, recent_ratio)
    /\ sPc' = "mixed"
    /\ UNCHANGED <<curriculumVars, codecVars, storeVars, coordVars>>

\* get_prioritized_trajectories(batch_size) over rows with the given
\* priorities
PrioritizedCall(priorities, batch) ==
    /\ sPc = "idle"
    /\ sArgs' = [batch_size |-> batch, priorities |-> priorities]
    /\ sOut' \in prioritized_results(priorities, batch)
    /\ sPc' = "prioritized"
    /\ UNCHANGED <<curriculumVars, codecVars, storeVars, coordVars>>

\* the caller has its answer
SamplerReturn ==
    /\ sPc # "idle"
    /\ sPc' = "idle"
    /\ sArgs' = NoCall
    /\ sOut' = NoCall
    /\ UNCHANGED <<curriculumVars, codecVars, storeVars, coordVars>>

SamplerNext ==
    \/ \E batch \in MixedBatchSizes, recent_ratio \in RecentRatios :
          MixedCall(batch, recent_ratio)
    \/ \E priorities \in PriorityLists, batch \in PrioritizedBatchSizes :
          PrioritizedCall(priorities, batch)
    \/ SamplerReturn

SamplerSpec == Init /\ [][SamplerNext]_vars


(***************************************************************************)
(* Exploration schedule: learning/curriculum.py AdaptiveExploration        *)
(***************************************************************************)

\* an epsilon is kept in billionths
EpsilonUnit == 1000000000
base_epsilon == EpsilonUnit \div 10
min_epsilon  == EpsilonUnit \div 100
max_epsilon  == 3 * (EpsilonUnit \div 10)

\* training-step counts get_epsilon is called with
MaxEpsilonSteps == 500
\* 0.995 ** training_steps is kept in millionths
DecayUnit == 1000000

\* 0.995 ** (n + 1) from 0.995 ** n, cut off to millionths (after n factors
\* at most n millionths below the power the source computes in floating
\* point)
decay_step(power) == (power * 995) \div 1000

\* time_decay = max(min_epsilon, base_epsilon * 0.995 ** training_steps),
\* `power` being 0.995 ** training_steps
time_decay_rising(power) ==
    Max(min_epsilon, (base_epsilon \div DecayUnit) * (2 * DecayUnit - power))
time_decay(power) ==
    Max(min_epsilon, (base_epsilon \div DecayUnit) * power)

\* recent_win_rate: None or a rate in [0, 1]
NoWinRate == [given |-> FALSE]
WinRate(n, d) == [given |-> TRUE, rate |-> Frac(n, d)]
WinRates ==
    {NoWinRate, WinRate(1, 5), WinRate(3, 10), WinRate(1, 2), WinRate(7, 10),
     WinRate(4, 5)}

\* performance_factor, in tenths: 1.5 below 0.3, 0.7 above 0.7, else 1.0
performance_factor(recent_win_rate) ==
    IF ~recent_win_rate.given THEN 10
    ELSE IF FracLt(recent_win_rate.rate, <<3, 10>>) THEN 15
    ELSE IF FracLt(<<7, 10>>, recent_win_rate.rate) THEN 7
    ELSE 10

\* curriculum_stage: None or the name of a stage
StageNames == {"None"} \cup {stages[i].name : i \in 1..Len(stages)}

\* curriculum_factor, in tenths
curriculum_factor(curriculum_stage) ==
    IF curriculum_stage = "None" THEN 10
    ELSE IF curriculum_stage = "basic_captures" THEN 15
    ELSE IF curriculum_stage = "mastery" THEN 6
    ELSE 10

\* time_decay * performance_factor * curriculum_factor; time_decay is a
\* whole number of ten-millionths, so the division is exact
factor_product(power, recent_win_rate, curriculum_stage) ==
    (time_decay(power) \div 100) * performance_factor(recent_win_rate)
        * curriculum_factor(curriculum_stage)

\* epsilon = max(self.min_epsilon, min(self.max_epsilon, epsilon))
clamp_epsilon_off(epsilon) == epsilon
clamp_epsilon(epsilon) ==
    Max(min_epsilon, IF max_epsilon < epsilon THEN max_epsilon ELSE epsilon)

\* AdaptiveExploration.get_epsilon, `power` being 0.995 ** training_steps
get_epsilon(power, recent_win_rate, curriculum_stage) ==
    clamp_epsilon(factor_product(power, recent_win_rate, curriculum_stage))

\* get_epsilon is called as training goes on: first before any training
\* step, then at the same step count or at the next one.  sArgs and sOut
\* hold the latest call, sOut.power the power of 0.995 it computed.
EpsilonCall(steps, recent_win_rate, curriculum_stage) ==
    LET power == IF sPc = "idle" THEN DecayUnit
                 ELSE IF steps = sArgs.training_steps THEN sOut.power
                 ELSE decay_step(sOut.power)
    IN  /\ \/ sPc = "idle" /\ steps = 0
           \/ sPc = "epsilon" /\ steps = sArgs.training_steps
           \/ sPc = "epsilon" /\ steps = sArgs.training_steps + 1
        /\ steps <= MaxEpsilonSteps
        /\ sArgs' = [training_steps |-> steps,
                     recent_win_rate |-> recent_win_rate,
                     curriculum_stage |-> curriculum_stage]
        /\ sOut' = [epsilon |-> get_epsilon(power, recent_win_rate,
                                            curriculum_stage),
                    power |-> power]
        /\ sPc' = "epsilon"
        /\ UNCHANGED <<curriculumVars, codecVars, storeVars, coordVars>>

\* the step counts the next call can be made with
NextSteps ==
    IF sPc = "epsilon"
    THEN {sArgs.training_steps, sArgs.training_steps + 1}
    ELSE {0}

ExplorationNext ==
    \E steps \in NextSteps, recent_win_rate \in WinRates,
       curriculum_stage \in StageNames :
        EpsilonCall(steps, recent_win_rate, curriculum_stage)

ExplorationSpec == Init /\ [][ExplorationNext]_vars


(***************************************************************************)
(* Move selection: api/ai.py infer_move, on the output of the network      *)
(***************************************************************************)

\* The move string "r,c->r,c" as its seven tokens.
MoveString(from_row, from_col, to_row, to_col) ==
    <<from_row, ",", from_col, "->", to_row, ",", to_col>>

\* parse_move_string: split at "->" and at ",", int() of the four parts
parse_move_string(move_str) ==
    <<move_str[1], move_str[3], move_str[5], move_str[7]>>

\* encode_state reads board[row][col] for the 10 x 10 squares and calls
\* .get on every cell that is not None: it raises on a string that is not
\* JSON, on a missing or null row, on a missing cell and on a cell that is
\* not a dict.
encode_state_raises(board_state) ==
    LET board == _normalize_board(board_state)
    IN  \/ board.t # "list"
        \/ Len(board.rows) < 10
        \/ \E row \in 1..10 :
              \/ ~board.rows[row].list
              \/ Len(board.rows[row].cells) < 10
              \/ \E col \in 1..10 : board.rows[row].cells[col] = OddCell

\* move_idx of a move string
move_index(move_str) ==
    LET m == parse_move_string(move_str)
    IN  encode_move(m[1], m[2], m[3], m[4])

\* encoded_moves: the (move_str, move_idx) pairs with move_idx >= 0, in the
\* order of the request
encoded_moves(legal_moves) ==
    SelectSeq([i \in 1..Len(legal_moves) |->
                  <<legal_moves[i], move_index(legal_moves[i])>>],
              LAMBDA pair : pair[2] >= 0)

\* legal_move_indices = sorted({idx for _, idx in encoded_moves}), as a set
legal_move_indices(legal_moves) ==
    {encoded_moves(legal_moves)[i][2] : i \in 1..Len(encoded_moves(legal_moves))}

\* legal_move_indices[masked_policy[0, legal_move_indices].argmax()]: the
\* legal index of the highest probability, the smallest one of several
best_move_idx(policy, legal_moves) ==
    CHOOSE idx \in legal_move_indices(legal_moves) :
        \A other \in legal_move_indices(legal_moves) :
            \/ policy[idx] > policy[other]
            \/ policy[idx] = policy[other] /\ idx <= other

\* for move_str, idx in encoded_moves: if idx == best_move_idx: ... break
matching_move_last(encoded, idx) ==
    LET last == CHOOSE i \in 1..Len(encoded) :
                    /\ encoded[i][2] = idx
                    /\ \A j \in (i + 1)..Len(encoded) : encoded[j][2] # idx
    IN  encoded[last][1]
matching_move(encoded, idx) ==
    LET first == CHOOSE i \in 1..Len(encoded) :
                     /\ encoded[i][2] = idx
                     /\ \A j \in 1..(i - 1) : encoded[j][2] # idx
    IN  encoded[first][1]

\* return req.legal_moves[0], MODEL_VERSION
fallback_move_last(legal_moves) == legal_moves[Len(legal_moves)]
fallback_move(legal_moves) == legal_moves[1]

\* infer_move: the outcomes it can have on a request, `policy` being the
\* probabilities the network puts out for the board.  Which of them happens
\* is np.random's choice: with probability 0.1 a random encodable move.
infer_move(board_state, legal_moves, policy) ==
    LET encoded == encoded_moves(legal_moves)
        Returned(move, path) ==
            [tag |-> "returned", move |-> move, path |-> path]
    IN  IF encode_state_raises(board_state) THEN {[tag |-> "raised"]}
        ELSE IF encoded = <<>>
        THEN IF legal_moves = <<>> THEN {[tag |-> "raised"]}
             ELSE {Returned(fallback_move(legal_moves), "fallback")}
        ELSE {Returned(matching_move(encoded,
                                     best_move_idx(policy, legal_moves)),
                       "greedy")}
             \cup (IF Len(encoded) > 1
                   THEN {Returned(encoded[i][1], "exploration") :
                            i \in 1..Len(encoded)}
                   ELSE {})

\* longest list of legal moves in a request
MaxLegalMoves == 3

\* moves a request lists: a step, a jump, two flying-king moves along the
\* same diagonal as the step, a move from a light square, a move along a
\* row, and a step from another square
RequestMoves ==
    { MoveString(5, 4, 4, 3), MoveString(5, 4, 3, 2), MoveString(5, 4, 2, 1),
      MoveString(5, 4, 1, 0), MoveString(4, 4, 3, 3), MoveString(5, 4, 5, 6),
      MoveString(6, 5, 5, 6) }

\* lists of distinct moves
LegalMoveLists ==
    {l \in UNION {[1..n -> RequestMoves] : n \in 0..MaxLegalMoves} :
        \A i, j \in 1..Len(l) : i # j => l[i] # l[j]}

\* board_state of a request: a 10x10 board as a list and as JSON text, a
\* board that is too small, a string that is not JSON
RequestBoards ==
    {QuietStep.before, StrBoard(QuietStep.before), CornerBoard, StrBoard(NotJson)}

\* the network's probabilities of the action indices the moves encode to,
\* as ranks
Policies ==
    [{move_index(m) : m \in RequestMoves} \ {-1} -> {1, 2}]

InferMoveCall(board_state, legal_moves, policy) ==
    /\ sPc = "idle"
    /\ sArgs' = [board_state |-> board_state, legal_moves |-> legal_moves,
                 policy |-> policy]
    /\ sOut' \in infer_move(board_state, legal_moves, policy)
    /\ sPc' = "infer_move"
    /\ UNCHANGED <<curriculumVars, codecVars, storeVars, coordVars>>

InferMoveReturn ==
    /\ sPc = "infer_move"
    /\ sPc' = "idle"
    /\ sArgs' = NoCall
    /\ sOut' = NoCall
    /\ UNCHANGED <<curriculumVars, codecVars, storeVars, coordVars>>

MoveNext ==
    \/ /\ sPc = "idle"
       /\ \E board_state \in RequestBoards, legal_moves \in LegalMoveLists,
             policy \in Policies :
             InferMoveCall(board_state, legal_moves, policy)
    \/ InferMoveReturn

MoveSpec == Init /\ [][MoveNext]_vars


(***************************************************************************)
(* The reward engine called on its own: api/ai.py calculate_reward         *)
(***************************************************************************)

\* calculate_reward(board_before, board_after, action, is_terminal, winner):
\* it returns a value or leaves by the exception of a helper.
RewardCall(board_before, board_after, is_terminal, winner) ==
    /\ sPc = "idle"
    /\ sArgs' = [board_before |-> board_before, board_after |-> board_after,
                 is_terminal |-> is_terminal, winner |-> winner]
    /\ sOut' =
          IF calculate_reward_raises(board_before, board_after, is_terminal)
          THEN [tag |-> "raised"]
          ELSE [tag |-> "returned",
                value |-> calculate_reward(board_before, board_after,
                                           is_terminal, winner),
                material |->
                    IF is_terminal THEN FracInt(0)
                    ELSE material_reward(pieces_captured(board_before, board_after))]
    /\ sPc' = "reward"
    /\ UNCHANGED <<curriculumVars, codecVars, storeVars, coordVars>>

RewardReturn ==
    /\ sPc = "reward"
    /\ sPc' = "idle"
    /\ sArgs' = NoCall
    /\ sOut' = NoCall
    /\ UNCHANGED <<curriculumVars, codecVars, storeVars, coordVars>>

RewardNext ==
    \/ /\ sPc = "idle"
       /\ \E board_before, board_after \in BoardEncodings,
             is_terminal \in BOOLEAN, winner \in RewardWinners :
             RewardCall(board_before, board_after, is_terminal, winner)
    \/ RewardReturn

RewardSpec == Init /\ [][RewardNext]_vars

\* ------------------------------------------------------------------
\* Learner construction on a checkpoint file found on disk
\* ------------------------------------------------------------------

MaxSavedId == 3

\* the weights a checkpoint file can hold for one parameter
SavedWeights ==
    {TrainedWeights(n, finite) : n \in 1..MaxSavedId, finite \in BOOLEAN}

\* the checkpoint files: none, or one written by a learner of either
\* architecture
DiskCheckpoints ==
    {NoCheckpoint} \cup
    [exists : {TRUE}, arch : {"standard", "advanced"},
     model_state_dict : [Params -> SavedWeights],
     training_steps : 0..MaxSteps]

\* A2CLearner.__init__: the inner except of _load_model catches what
\* load_state_dict raises and the outer except what torch.load raises, so
\* the constructor returns on every file.
LearnerConstruct(ckpt) ==
    /\ sPc = "idle"
    /\ sArgs' = [checkpoint |-> ckpt]
    /\ sOut' = [tag |-> "constructed",
                model_training |-> loaded_training(ckpt),
                model_live |-> loaded_live(ckpt),
                training_steps |->
                    initial_training_steps(loaded_training_steps(ckpt))]
    /\ sPc' = "construct"
    /\ UNCHANGED <<curriculumVars, codecVars, storeVars, coordVars>>

ConstructReturn ==
    /\ sPc = "construct"
    /\ sPc' = "idle"
    /\ sArgs' = NoCall
    /\ sOut' = NoCall
    /\ UNCHANGED <<curriculumVars, codecVars, storeVars, coordVars>>

ConstructNext ==
    \/ /\ sPc = "idle"
       /\ \E ckpt \in DiskCheckpoints : LearnerConstruct(ckpt)
    \/ ConstructReturn

ConstructSpec == Init /\ [][ConstructNext]_vars

\* ------------------------------------------------------------------
\* record_game on two result requests, each run on its own against the
\* same store at the same time
\* ------------------------------------------------------------------

\* longest trajectory of these requests
MaxRecordLen == 2

\* TrajectoryStep.reward as a client may fill it in (schemas.py: float,
\* default 0.0)
SuppliedRewards == {FracInt(0), FracInt(1)}

\* the steps of a request: the boards and action of a step kind, and the
\* reward field
RequestSteps == [kind : {1, 2}, reward : SuppliedRewards]

ResultRequests ==
    [game_id : ClientGameIds, winner : RequestWinners,
     trajectory : UNION {[1..n -> RequestSteps] : n \in 0..MaxRecordLen}]

\* a record_game that stores the reward field of the step
stored_reward_supplied(step, is_terminal, winner) == step.reward

\* record_game: reward = calculate_reward(step.board_state,
\* step.next_state, step.action, is_terminal, req.winner)
stored_reward(step, is_terminal, winner) ==
    record_game_reward(step.kind, is_terminal, winner)

\* record_game: the row of add_game
recorded_game(req, now) ==
    [game_id |-> req.game_id, winner |-> valid_winner(req.winner),
     total_moves |-> Len(req.trajectory), timestamp |-> now]

\* record_game: the rows of its add_trajectory calls, in order
recorded_steps(req) ==
    [n \in 1..Len(req.trajectory) |->
        LET is_terminal == (n - 1 = Len(req.trajectory) - 1)
        IN  [game_id |-> req.game_id, move_number |-> n - 1,
             kind |-> req.trajectory[n].kind,
             reward |-> stored_reward(req.trajectory[n], is_terminal,
                                      valid_winner(req.winner)),
             done |-> is_terminal, player |-> "black"]]

recorded(req, now) ==
    [games |-> recorded_game(req, now), trajectories |-> recorded_steps(req)]

RecordPair(first, second) ==
    /\ sPc = "idle"
    /\ sArgs' = [first |-> first, second |-> second]
    /\ sOut' = [first |-> recorded(first, clock + 1),
                second |-> recorded(second, clock + 1)]
    /\ sPc' = "record_game"
    /\ UNCHANGED <<curriculumVars, codecVars, storeVars, coordVars>>

RecordReturn ==
    /\ sPc = "record_game"
    /\ sPc' = "idle"
    /\ sArgs' = NoCall
    /\ sOut' = NoCall
    /\ UNCHANGED <<curriculumVars, codecVars, storeVars, coordVars>>

RecordNext ==
    \/ /\ sPc = "idle"
       /\ \E first, second \in ResultRequests : RecordPair(first, second)
    \/ RecordReturn

RecordSpec == Init /\ [][RecordNext]_vars

\* ---- codec claims ----

IsPlayable(r, c) ==
    /\ 0 <= r /\ r < board_size
    /\ 0 <= c /\ c < board_size
    /\ (r + c) % 2 = 1

\* Rank of a playable square among the 50 dark squares in row-major order.
PlayableIndex(r, c) == r * (board_size \div 2) + (c \div 2)

PlayableCall ==
    /\ IsPlayable(cArgs[1], cArgs[2])
    /\ IsPlayable(cArgs[3], cArgs[4])

\* C8: for every pair of playable squares for which encode_move succeeds,
\* decode_move(encode_move(from, to)) returns exactly (from, to).
C8_RoundTrip ==
    (cPc = "decoded" /\ PlayableCall /\ cIdx # -1)
        => cDec = [tag |-> "move", from |-> <<cArgs[1], cArgs[2]>>,
                                   to |-> <<cArgs[3], cArgs[4]>>]

\* C9: from one playable origin, two different playable landing squares that
\* both encode successfully never get the same index.
C9_NoCollision ==
    (cPc = "encoded" /\ PlayableCall /\ cIdx # -1)
        => \A tr \in 0..(board_size - 1), tc \in 0..(board_size - 1) :
              ( /\ IsPlayable(tr, tc)
                /\ <<tr, tc>> # <<cArgs[3], cArgs[4]>>
                /\ encode_move(cArgs[1], cArgs[2], tr, tc) # -1 )
                  => encode_move(cArgs[1], cArgs[2], tr, tc) # cIdx

\* C10: for playable from and to squares encode_move returns
\* fromPlayableIndex * 50 + toPlayableIndex, which lies in 0..2499.
\* (Stated for moves proper, from # to.)
C10_FromTimes50PlusTo ==
    (cPc = "encoded" /\ PlayableCall /\ <<cArgs[1], cArgs[2]>> # <<cArgs[3], cArgs[4]>>)
        => /\ cIdx = PlayableIndex(cArgs[1], cArgs[2]) * 50
                       + PlayableIndex(cArgs[3], cArgs[4])
           /\ cIdx \in 0..2499

\* C11: encode_move returns -1 exactly when the from-square or the
\* to-square is not a playable square of the board.
C11_SentinelIffUnplayable ==
    cPc = "encoded" => (cIdx = -1 <=> ~PlayableCall)

\* ---- coordinator claims ----

\* weights a network object was initialised with
IsFresh(w) == w.set \in {"training", "live", "model"}

\* the parameters the running inference has read so far
ReadSoFar == {ParamOrder[i] : i \in 1..infer.n}

\* C1: when the health check of a sync_models call fails, the call returns
\* False and model_live is what it was when the call was entered.
C1_FailedCheckLeavesServing ==
    sync_health = "failed" =>
        /\ sync_result = "False"
        /\ model_live = live_before

\* C1 witness: a sync has returned False on non-finite training weights and
\* the serving instance still differs from the training instance.
C1_Witness ==
    /\ wPc = "sleep"
    /\ sync_health = "failed"
    /\ sync_result = "False"
    /\ ~_check_model_health(model_training)
    /\ model_live = live_before
    /\ model_live # model_training

\* C2: every parameter of the serving instance (model_live of the running
\* training process) and of the model that answers move requests (model of
\* the running serving process) is freshly initialised or was copied by a
\* sync_models whose health check had passed on it.
C2_ServingFreshOrValidated ==
    \A p \in Params :
        /\ wPc # "down" => (IsFresh(model_live[p]) \/ model_live[p] \in validated)
        /\ apiUp => (IsFresh(model[p]) \/ model[p] \in validated)

C4_ServesPublished ==
    (infer.pc = "done" /\ infer.startPublished # NoModel) =>
        \/ infer.read = infer.startPublished
        \/ infer.read = published

\* The mean of the recorded losses is a number above max_loss_threshold.
MeanExceeds(window) ==
    /\ window # <<>>
    /\ \A i \in 1..Len(window) : window[i] \in Nat
    /\ SeqSum(window) > max_loss_threshold * Len(window)

JustConstructed ==
    /\ wPc = "loop"
    /\ iteration = 0
    /\ iters = 0
    /\ ~clean_iters

\* C16: a learner constructed while a checkpoint written by save_model is
\* on disk starts with the training_steps that checkpoint holds.
C16_StepCounterRoundTrip ==
    (JustConstructed /\ checkpoint.exists)
        => training_steps = checkpoint.training_steps

\* C17: right after construction model_training and model_live hold the
\* same weights, whether or not a checkpoint was there to load.
C17_StartIdentical ==
    JustConstructed => model_training = model_live

\* C15: an iteration that finds fewer than batch_size stored transitions of
\* player "black" takes no optimizer step, runs no sync and writes no
\* checkpoint, leaves consecutive_errors as it was, and goes to sleep, from
\* where the loop comes round again.
C15_TooFewIsNoError ==
    /\ [][ (wPc = "loop" /\ fetched'.looked /\ fetched'.black < batch_size)
              => /\ trained' = trained
                 /\ model_training' = model_training
                 /\ training_steps' = training_steps
                 /\ model_live' = model_live
                 /\ syncs' = syncs
                 /\ sync_result' = "none"
                 /\ checkpoint' = checkpoint
                 /\ consecutive_errors' = consecutive_errors
                 /\ wPc' = "sleep" ]_vars
    /\ []((wPc = "sleep" /\ fetched.looked /\ fetched.black < batch_size)
            => ENABLED Sleep)

\* C15 witness: after an iteration that raised, an iteration has found a
\* batch in the store but too few transitions of player "black", and sleeps
\* with the error count still at one.
C15_Witness ==
    /\ wPc = "sleep"
    /\ fetched.looked
    /\ enough_total(fetched.total)
    /\ fetched.black < batch_size
    /\ consecutive_errors = 1
    /\ sync_result = "none"

\* C14: while the loop runs, the periodic save has written the checkpoint
\* in the current iteration only if the iteration found a batch, took its
\* training step and had sync_models return True; outside the exits of the
\* loop the checkpoint file changes only by that save; so an iteration whose
\* sync_models returned False writes none.
C14_SaveOnlyAfterSync ==
    /\ [](wPc # "down" /\ iter_saved
            => /\ sync_result = "True"
               /\ enough_total(fetched.total)
               /\ enough_sampled(fetched.black)
               /\ training_steps > 0)
    /\ [][ (wPc' # "down" /\ checkpoint' # checkpoint)
              => (sync_result = "True" /\ iter_saved') ]_vars

\* C14 witness: a save_interval-th iteration whose sync_models returned
\* False has ended without the periodic save.
C14_Witness ==
    /\ wPc = "sleep"
    /\ sync_result = "False"
    /\ ~iter_saved
    /\ iteration % save_interval = 0

\* C13: in a run of train_loop in which every iteration has raised, the
\* loop does not go on after the fifth iteration: the process has ended, and
\* save_model was tried on the way out, whether it succeeded or failed; and
\* that exit is not taken before the fifth iteration.
C13_FiveErrorsEndLoop ==
    /\ (~clean_iters /\ iters >= max_consecutive_errors)
          => (wPc = "down" /\ exit_save \in {"saved", "failed"})
    /\ (~clean_iters /\ exit_save # "none")
          => iters = max_consecutive_errors

\* C13 witness: five iterations, each of which raised, have ended the loop,
\* and the save_model tried on the way out failed.
C13_Witness ==
    /\ wPc = "down"
    /\ ~clean_iters
    /\ iters = max_consecutive_errors
    /\ exit_save = "failed"

\* C18: the stage the curriculum manager has determined is never earlier in
\* the curriculum than a stage it reported before.
C18_StageNeverEarlier ==
    current_stage # "None" => StageRank(current_stage) >= highest_reported

\* the numbers r for which r is batch * ratio rounded to an integer (either
\* neighbour when the product lies half-way)
IsRounded(r, batch, ratio) ==
    /\ 2 * (r * ratio[2] - batch * ratio[1]) <= ratio[2]
    /\ 2 * (batch * ratio[1] - r * ratio[2]) <= ratio[2]

\* C19: get_mixed_trajectories asks for round(batch_size * recent_ratio)
\* recent transitions and for the rest of the batch at random.
C19_MixedCountsRounded ==
    sPc = "mixed" =>
        /\ IsRounded(sOut.recent, sArgs.batch_size, sArgs.recent_ratio)
        /\ sOut.historical = sArgs.batch_size - sOut.recent

\* C20: with non-negative priorities get_prioritized_trajectories returns
\* without error min(batch_size, n) transitions, none of them twice.
C20_PrioritizedReturnsBatch ==
    sPc = "prioritized" =>
        /\ sOut.tag = "returned"
        /\ Len(sOut.selected) =
              choice_size(sArgs.priorities, sArgs.batch_size)
        /\ \A i, j \in 1..Len(sOut.selected) :
              i # j => sOut.selected[i] # sOut.selected[j]

\* C35: train_loop ends because of errors only when its five most recent
\* iterations all raised: every iteration that ends without an exception
\* (a training step, a paused or a waiting iteration) leaves the
\* consecutive-error count at zero.
C35_ExitOnlyAfterFiveInARow ==
    /\ exit_save # "none" => iters = max_consecutive_errors
    /\ wPc = "sleep" => consecutive_errors = 0

\* the health check of this iteration's sync has failed, and the iteration
\* or the sleep after it is not over
SyncFailed == sync_health = "failed"

\* C37: when a training step has succeeded and the sync after it fails,
\* the training weights are those the optimizer step left and the step
\* counter has counted it, the serving weights are those from before the
\* step, and the loop is told: sync_models has returned False to it and it
\* writes no checkpoint in this iteration.
C37_FailedSyncKeepsStep ==
    SyncFailed =>
        /\ \A p \in Params :
              model_training[p].set = "trained" /\ model_training[p].id = trained
        /\ training_steps = iteration /\ iteration >= 1
        /\ model_live = live_before
        /\ \A p \in Params : model_live[p] # model_training[p]
        /\ sync_result = "False"
        /\ ~iter_saved

\* C37 witness: the second training step of a process has gone wrong after
\* a first one that was synced: the loop holds the False of sync_models,
\* the serving weights are those of step one.
C37_Witness ==
    /\ SyncFailed
    /\ wPc = "synced"
    /\ training_steps = 2
    /\ \A p \in Params : model_live[p].set = "trained"

\* ---- version tag claims ----

\* the tag f"v{training_steps}" of weights that came out of the n-th
\* training step
NamesWeights(version, m) ==
    /\ version.tag = "v"
    /\ \A p \in Params : m[p].set = "trained" /\ m[p].id = version.n

\* C29: a move answered after a successful sync carries the version tag of
\* the weights that sync published (those it found published when it began
\* or those published while it ran), not the tag of the start-up weights.
C29_TagNamesServingWeights ==
    (infer.pc = "done" /\ infer.startPublished # NoModel) =>
        \/ NamesWeights(MODEL_VERSION, infer.startPublished)
        \/ NamesWeights(MODEL_VERSION, published)

\* ---- shutdown claims ----

\* between the optimizer step of an iteration and the end of its sync and
\* periodic save
MidIteration == wPc \in {"sync", "copying", "synced"}

\* C30: a shutdown signal does not end the training process in the middle
\* of an iteration: the process leaves an iteration into the sleep between
\* iterations, or through the exit for too many errors, never through the
\* signal handler.
C30_NoShutdownMidIteration ==
    [][MidIteration /\ wPc' = "down" => exit_save' # "none"]_vars

\* C38: after SIGINT or SIGTERM has been delivered to train_loop the loop
\* stops, whether the save_model of the signal handler succeeds or raises:
\* the process has ended, or the loop is still in the sleep of its
\* exception handler, and no further iteration begins.
C38_SignalStopsLoop ==
    signalled => wPc \in {"down", "retry"}

\* ---- move selection claims ----

InferReturned == sPc = "infer_move" /\ sOut.tag = "returned"

IsListed(move, legal_moves) ==
    \E i \in 1..Len(legal_moves) : legal_moves[i] = move

\* no move of the list has an action index
NoneEncodable(legal_moves) ==
    \A i \in 1..Len(legal_moves) : move_index(legal_moves[i]) < 0

\* C27 as stated: for every request with a non-empty list of legal moves
\* infer_move returns a move of the list, the first one when no move can be
\* encoded.
C27_ReturnsListedMove ==
    sPc = "infer_move" /\ sArgs.legal_moves # <<>> =>
        /\ sOut.tag = "returned"
        /\ IsListed(sOut.move, sArgs.legal_moves)
        /\ NoneEncodable(sArgs.legal_moves) => sOut.move = sArgs.legal_moves[1]

\* C27 amended: for every request with a 10x10 board and a non-empty list
\* of legal moves infer_move returns a move of the list, the first one when
\* no move can be encoded.
C27_ReturnsListedMoveOnBoard ==
    /\ sPc = "infer_move"
    /\ sArgs.legal_moves # <<>>
    /\ ~encode_state_raises(sArgs.board_state)
    => /\ sOut.tag = "returned"
       /\ IsListed(sOut.move, sArgs.legal_moves)
       /\ NoneEncodable(sArgs.legal_moves) => sOut.move = sArgs.legal_moves[1]

\* a request of several moves none of which can be encoded
C27_Witness ==
    /\ InferReturned
    /\ Len(sArgs.legal_moves) > 1
    /\ NoneEncodable(sArgs.legal_moves)
    /\ sOut.move = sArgs.legal_moves[1]

\* C28: on the greedy path the move returned is the first move of the
\* request, in its order, that encodes to the action index of the highest
\* probability.
C28_FirstInRequestOrder ==
    InferReturned /\ sOut.path = "greedy" =>
        \E i \in 1..Len(sArgs.legal_moves) :
            /\ sOut.move = sArgs.legal_moves[i]
            /\ move_index(sOut.move) >= 0
            /\ \A j \in 1..Len(sArgs.legal_moves) :
                  LET mine  == sArgs.policy[move_index(sOut.move)]
                      other == move_index(sArgs.legal_moves[j])
                  IN  /\ other >= 0 => sArgs.policy[other] <= mine
                      /\ j < i => other # move_index(sOut.move)

\* two moves of the request share the chosen index and the request lists a
\* different move before them
C28_Witness ==
    /\ InferReturned /\ sOut.path = "greedy"
    /\ Len(sArgs.legal_moves) = 3
    /\ sOut.move = sArgs.legal_moves[2]
    /\ move_index(sArgs.legal_moves[3]) = move_index(sOut.move)

\* ---- exploration schedule claims ----

\* C25: for every training-step count, win rate and curriculum stage (or
\* none) get_epsilon returns a value in [min_epsilon, max_epsilon] =
\* [0.01, 0.30].
C25_EpsilonInRange ==
    sPc = "epsilon" =>
        /\ 10000000 <= sOut.epsilon       \* 0.01 in billionths
        /\ sOut.epsilon <= 300000000      \* 0.30

\* the product of the three factors lies below min_epsilon and is raised to it
C25_Witness ==
    /\ sPc = "epsilon"
    /\ factor_product(sOut.power, sArgs.recent_win_rate,
                      sArgs.curriculum_stage) < min_epsilon
    /\ sOut.epsilon = min_epsilon

\* C26: with the win rate and the stage held fixed, get_epsilon does not
\* grow with the number of training steps.
C26_EpsilonNonIncreasing ==
    [][ /\ sPc = "epsilon" /\ sPc' = "epsilon"
        /\ sArgs'.recent_win_rate = sArgs.recent_win_rate
        /\ sArgs'.curriculum_stage = sArgs.curriculum_stage
        /\ sArgs'.training_steps >= sArgs.training_steps
        => sOut'.epsilon <= sOut.epsilon ]_vars

\* a call later in training that returned less than the call before any
\* training step did, for the same win rate and stage
C26_Witness ==
    /\ sPc = "epsilon"
    /\ sArgs.training_steps > 0
    /\ sOut.epsilon < get_epsilon(DecayUnit, sArgs.recent_win_rate,
                                  sArgs.curriculum_stage)

\* ---- reward engine claims ----

RewardReturned == sPc = "reward" /\ sOut.tag = "returned"

\* some row of the board is not a list, or is shorter or longer than the
\* first, or some cell is neither None nor a piece record, or the board is
\* a string
IsMalformed(board) ==
    \/ board.t = "str"
    \/ \E r \in 1..Len(RowsOf(board)) :
          \/ ~board.rows[r].list
          \/ Len(board.rows[r].cells) # Len(board.rows[1].cells)
          \/ \E c \in 1..Len(board.rows[r].cells) : board.rows[r].cells[c] = OddCell

\* C21: calculate_reward returns a value, without raising, for every
\* malformed or partial board encoding of a non-terminal transition.
C21_MalformedBoardReturns ==
    sPc = "reward" /\ ~sArgs.is_terminal => sOut.tag = "returned"

\* C22: a terminal transition is rewarded with exactly 1 for a win of the
\* agent, -1 for a win of the opponent and 0 for a draw, whatever the
\* boards are.
C22_TerminalRewardExact ==
    sPc = "reward" /\ sArgs.is_terminal =>
        /\ sOut.tag = "returned"
        /\ sArgs.winner = "ai" => sOut.value = <<1, 1>>
        /\ sArgs.winner = "human" => sOut.value = <<-1, 1>>
        /\ sArgs.winner = "draw" => sOut.value = <<0, 1>>

\* a terminal call with a board that makes the helpers raise
C22_Witness ==
    /\ sPc = "reward" /\ sArgs.is_terminal /\ sArgs.winner = "human"
    /\ IsMalformed(sArgs.board_after)
    /\ helpers_raise(RowsOf(_normalize_board(sArgs.board_after)))
    /\ sOut.tag = "returned"

\* C23: whenever calculate_reward returns, the reward lies in [-1, 1].
C23_RewardInRange ==
    RewardReturned =>
        /\ (-1) * sOut.value[2] <= sOut.value[1]
        /\ sOut.value[1] <= sOut.value[2]
        /\ sOut.value[2] > 0

\* a non-terminal call whose tiers add up to more than 1
C23_Witness ==
    /\ RewardReturned /\ ~sArgs.is_terminal
    /\ FracLt(FracInt(1),
              shaped_reward(RowsOf(_normalize_board(sArgs.board_before)),
                            RowsOf(_normalize_board(sArgs.board_after))))

\* 0.2c + 0.05(c - 1)^2 in hundredths
CaptureTerm(c) == 20 * c + 5 * (c - 1) * (c - 1)

\* C24: the material tier is 0 for a capture count c <= 0, 0.08 for c = 1
\* and 0.2c + 0.05(c - 1)^2 for c > 1 (0.45 for two pieces), and a larger
\* capture always earns strictly more than a smaller one.
C24_MaterialTier ==
    RewardReturned /\ ~sArgs.is_terminal =>
        LET c == pieces_captured(sArgs.board_before, sArgs.board_after)
        IN  /\ c <= 0 => sOut.material = <<0, 1>>
            /\ c = 1 => sOut.material = <<2, 25>>
            /\ c = 2 => sOut.material = <<9, 20>>
            /\ c > 1 => sOut.material[1] * 100 = CaptureTerm(c) * sOut.material[2]
            /\ \A b \in 1..(c - 1) :
                  /\ material_reward(b)[1] * sOut.material[2]
                        < sOut.material[1] * material_reward(b)[2]
                  /\ b = 1 => 8 * sOut.material[2] < 100 * sOut.material[1]

\* three pieces captured in one move
C24_Witness ==
    /\ RewardReturned /\ ~sArgs.is_terminal
    /\ pieces_captured(sArgs.board_before, sArgs.board_after) = 3
    /\ sOut.material = <<4, 5>>

\* the pieces of each kind on a board of the call
CountsOf(board) == _count_pieces(RowsOf(_normalize_board(board)))

\* C39: the capture count of the material tier is the number of opponent
\* (red) pieces removed between the two boards, so a non-terminal
\* transition in which only pieces of the agent (black) disappear has a
\* count of 0 and no positive material contribution.
C39_CaptureCountsOpponent ==
    RewardReturned /\ ~sArgs.is_terminal =>
        LET before  == CountsOf(sArgs.board_before)
            after   == CountsOf(sArgs.board_after)
            removed == before.red_total - after.red_total
        IN  /\ pieces_captured(sArgs.board_before, sArgs.board_after) = removed
            /\ sOut.material = material_reward(removed)
            /\ (removed = 0 /\ after.black_total < before.black_total)
                  => sOut.material = <<0, 1>>

\* ---- store claims ----

AddGameInProgress ==
    \E w \in Writers : writer[w].pc \in {"cleanup", "select", "delete"}

\* C5: every transition row refers to a game present in the games table.
C5_NoOrphanTransitions ==
    \A row \in DOMAIN trajectories : row.game_id \in GameIdsOf(games)

\* C6: whenever no add_game call is in progress, at most max_games games
\* are stored.
C6_GamesWithinCap ==
    ~AddGameInProgress => Cardinality(games) <= max_games

\* C6 witness: no add_game is running, the store is exactly at its cap, and
\* a cleanup has evicted the game a recorder is still writing the steps of.
C6_Witness ==
    /\ ~AddGameInProgress
    /\ Cardinality(games) = max_games
    /\ \E w \in Writers :
          /\ writer[w].pc = "steps"
          /\ writer[w].game_id \notin GameIdsOf(games)

\* the step is the DELETE of some add_game's cleanup
EvictionStep ==
    \E w \in Writers : writer[w].pc = "delete" /\ writer'[w].pc = "steps"

\* C32: a game record is never modified after its creation: over any store
\* operation, add_game with the same identifier included, a game that stays
\* stored keeps its outcome, step count and creation timestamp, and a game
\* leaves the store only through eviction.
C32_GameRecordImmutable ==
    [][/\ \A g \in games :
             g.game_id \in GameIdsOf(games') => g \in games'
       /\ GameIdsOf(games) \ GameIdsOf(games') # {} => EvictionStep]_vars

\* C33: eviction is FIFO by creation time: whenever add_game evicts, every
\* game it deletes has an earlier creation timestamp than every game that
\* remains stored, and no transition of a deleted game is left.
C33_EvictionOldestFirst ==
    [][EvictionStep =>
        /\ \A old \in games \ games' : \A kept \in games' :
               old.timestamp < kept.timestamp
        /\ \A row \in DOMAIN trajectories' :
               row.game_id \notin GameIdsOf(games \ games')]_vars

\* the stored transitions of game g that have the terminal flag
TerminalRows(g) ==
    {row \in DOMAIN trajectories : row.game_id = g /\ row.done}

\* request thread w has stored every step of a trajectory of n >= 1 steps
\* and its game is in the store
HasRecorded(w) ==
    /\ writer[w].pc = "steps"
    /\ writer[w].source = "record_game"
    /\ Len(writer[w].traj) >= 1
    /\ writer[w].i = Len(writer[w].traj)
    /\ writer[w].game_id \in GameIdsOf(games)

\* C36: when record_game has stored a game of n >= 1 steps, exactly one
\* stored transition of that game has the terminal flag, it has sequence
\* index n - 1 and the outcome value (1, -1 or 0) as its reward, and every
\* step of a smaller index is stored as non-terminal with its shaped reward.
C36_OneTerminalTransition ==
    \A w \in ApiThreads :
        HasRecorded(w) =>
            LET g == writer[w].game_id
                n == Len(writer[w].traj)
            IN  /\ \E row \in TerminalRows(g) :
                      /\ TerminalRows(g) = {row}
                      /\ trajectories[row] = 1
                      /\ row.move_number = n - 1
                      /\ row.reward = terminal_reward(writer[w].winner)
                /\ \A j \in 0..(n - 2) :
                      \E row \in DOMAIN trajectories :
                          /\ row.game_id = g
                          /\ row.move_number = j
                          /\ ~row.done
                          /\ row.reward =
                                engine_reward[writer[w].traj[j + 1], FALSE,
                                              writer[w].winner]

\* C7: every stored transition carries the reward calculate_reward gives
\* for its boards, its terminal flag and the outcome of its game.
C7_RewardFromEngine ==
    \A row \in DOMAIN trajectories :
        row.reward = engine_reward[row.kind, row.done, row.outcome]

\* ------------------------------------------------------------------
\* checkpoint loading claims
\* ------------------------------------------------------------------

\* the learner was constructed on a checkpoint its networks reject
RejectedLoad ==
    /\ sPc = "construct"
    /\ sArgs.checkpoint.exists
    /\ load_raises(learner_arch, sArgs.checkpoint.arch)

\* C31: when the checkpoint on disk cannot be loaded into the current
\* model, constructing the learner completes, both network instances hold
\* only their own fresh initialisation, and the training-step counter is 0.
C31_RejectedLoadStartsFresh ==
    RejectedLoad =>
        /\ sOut.tag = "constructed"
        /\ sOut.model_training = FreshModel("training")
        /\ sOut.model_live = FreshModel("live")
        /\ sOut.training_steps = 0

\* ------------------------------------------------------------------
\* result recording claims
\* ------------------------------------------------------------------

\* a request with every reward field set to zero
WithoutRewards(req) ==
    [req EXCEPT !.trajectory =
        [n \in 1..Len(req.trajectory) |->
            [req.trajectory[n] EXCEPT !.reward = FracInt(0)]]]

\* the two requests are identical except for the reward values of their
\* trajectory steps
SameButRewards ==
    /\ sPc = "record_game"
    /\ WithoutRewards(sArgs.first) = WithoutRewards(sArgs.second)

\* C34: two result requests that are identical except for the reward
\* values supplied in their trajectory steps make record_game store
\* identical games and transitions.
C34_SuppliedRewardIgnored ==
    SameButRewards => sOut.first = sOut.second

\* C34 witness: two requests of two steps that differ in the reward field of
\* both steps and in nothing else have been recorded.
C34_Witness ==
    /\ SameButRewards
    /\ Len(sArgs.first.trajectory) = 2
    /\ \A n \in 1..2 :
          sArgs.first.trajectory[n].reward # sArgs.second.trajectory[n].reward

=============================================================================
